---------------------------- MODULE Spec2Model ----------------------------
(***************************************************************************)
(* A model of fhir_conditions_manager: the ingestion pipeline              *)
(* (ingestion.py), the condition store (condition_store.py), the           *)
(* correction engine (corrections.py), the retrieval entry point           *)
(* (retrieval.py) and the monitoring ledger (monitoring.py).               *)
(*                                                                         *)
(* Representation.                                                         *)
(*   - A Python str that the code searches with `in`, lower-cases or       *)
(*     strips is a sequence of tokens (words); "" is <<>>.  `a in b` is    *)
(*     "a is a contiguous run of b", str.lower() maps LowerTok over the    *)
(*     tokens, " ".join concatenates.  An Optional[str] the code only      *)
(*     tests for truthiness is the same text, None and "" both <<>>.       *)
(*   - A code value, a system URI, an id, a reason is an atomic string.    *)
(*   - Any other Optional[T] is a set with at most one element.            *)
(*   - A dict or list whose order the code can observe is a sequence.      *)
(*                                                                         *)
(* Granularity.  StoreSpec takes the methods of ConditionStore apart       *)
(* statement by statement, with the lock as a variable.  In the other      *)
(* specifications a call of a store method is one step (the lock is free   *)
(* before and after it), while every statement around it, and every        *)
(* statement of the ledger, which has no lock, is a step of its own.       *)
(***************************************************************************)
EXTENDS Integers, Sequences, FiniteSets, TLC

(***************************************************************************)
(* Bounds of the model.                                                    *)
(***************************************************************************)
\* calls a run makes in all (ingest_batch, corrections, retrieve)
MaxCalls == 3
\* the wall clock stops advancing here
MaxClock == 2

Threads == {"t1", "t2"}

Min(a, b) == IF a <= b THEN a ELSE b

RECURSIVE SumSeq(_)
SumSeq(s) == IF s = <<>> THEN 0 ELSE Head(s) + SumSeq(Tail(s))

(***************************************************************************)
(* Strings.                                                                *)
(***************************************************************************)
\* str.lower() on one token
LowerTok(t) ==
    CASE t = "Hx" -> "hx"
      [] t = "TB" -> "tb"
      [] t = "Latent" -> "latent"
      [] t = "Pulmonary" -> "pulmonary"
      [] t = "Tuberculosis" -> "tuberculosis"
      [] t = "Asthma" -> "asthma"
      [] t = "Gout" -> "gout"
      [] t = "GOUT" -> "gout"
      [] t = "ICD10" -> "icd10"
      [] t = "Admin" -> "admin"
      [] t = "Active" -> "active"
      [] t = "(Qualifier" -> "(qualifier"
      [] t = "Resolved" -> "resolved"
      [] t = "Remission" -> "remission"
      [] t = "Z22.7" -> "z22.7"
      [] t = "Z86.15" -> "z86.15"
      [] t = "J45.909" -> "j45.909"
      [] t = "A15.0" -> "a15.0"
      [] t = "Carrier" -> "carrier"
      [] t = "Positive" -> "positive"
      [] t = "PPD" -> "ppd"
      [] OTHER -> t

Lower(text) == [i \in 1..Len(text) |-> LowerTok(text[i])]

\* Python's `pattern in text` on str
Contains(text, pattern) ==
    \E k \in 0..(Len(text) - Len(pattern)) :
        \A j \in 1..Len(pattern) : text[k + j] = pattern[j]

\* str.strip(): leading and trailing whitespace tokens dropped
RECURSIVE LStrip(_)
LStrip(text) ==
    IF text # <<>> /\ Head(text) = " " THEN LStrip(Tail(text)) ELSE text

RECURSIVE RStrip(_)
RStrip(text) ==
    IF text # <<>> /\ text[Len(text)] = " "
    THEN RStrip(SubSeq(text, 1, Len(text) - 1))
    ELSE text

Strip(text) == RStrip(LStrip(text))

(***************************************************************************)
(* condition_model.py: coding systems                                      *)
(***************************************************************************)
ICD10_SYSTEM == "http://hl7.org/fhir/sid/icd-10-cm"
SNOMED_SYSTEM == "http://snomed.info/sct"
ICD9_SYSTEM == "http://terminology.hl7.org/CodeSystem/ICD-9CM-diagnosiscodes"
IMO_SYSTEM == "http://terminology.hl7.org/CodeSystem-IMO.html"

(***************************************************************************)
(* ingestion.py                                                            *)
(***************************************************************************)
DERIVED_FROM_EXTENSION_URL ==
    "http://hl7.org/fhir/StructureDefinition/artifact-relatedArtifact"

ADMIN_CODE_INDICATORS ==
    { <<"admin", "code">>, <<"*new", "member">>, <<"prompt", "authorization">> }

VAGUE_ENTRY_KEYWORDS ==
    { <<"encounter", "for">>, <<"elective", "procedure">>,
      <<"initial", "encounter">> }

\* CLINICAL_STATUS_NORMALIZATION.get(raw, default)
CLINICAL_STATUS_NORMALIZATION(raw, default) ==
    CASE raw = <<"active">> -> <<"active">>
      [] raw = <<"active", "(qualifier", "value)">> -> <<"active">>
      [] raw = <<"resolved">> -> <<"resolved">>
      [] OTHER -> default

\* the codings of condition.code, [] when condition.code is None
Codings(condition) ==
    IF condition.code = {} THEN <<>>
    ELSE (CHOOSE c \in condition.code : TRUE).coding

\* condition.code.text, "" when condition.code is None
CodeText(condition) ==
    IF condition.code = {} THEN <<>>
    ELSE (CHOOSE c \in condition.code : TRUE).text

\* codes[system] of _extract_codes_by_system
CodesOfSystem(condition, system) ==
    { Codings(condition)[i].code : i \in
        { j \in 1..Len(Codings(condition)) :
            /\ Codings(condition)[j].code # ""
            /\ Codings(condition)[j].system = system } }

\* codes["_all"] of _extract_codes_by_system
AllCodes(condition) ==
    { Codings(condition)[i].code : i \in
        { j \in 1..Len(Codings(condition)) :
            /\ Codings(condition)[j].code # ""
            /\ Codings(condition)[j].system # "" } }

\* _normalize_clinical_status that gives "unknown" for a text the table
\* does not hold
normalize_clinical_status_strict(condition) ==
    IF condition.clinicalStatus = {} THEN <<"unknown">>
    ELSE LET raw == Lower(Strip((CHOOSE s \in condition.clinicalStatus : TRUE).text))
         IN  CLINICAL_STATUS_NORMALIZATION(raw, <<"unknown">>)

normalize_clinical_status(condition) ==
    IF condition.clinicalStatus = {} THEN <<"unknown">>
    ELSE LET raw == Lower(Strip((CHOOSE s \in condition.clinicalStatus : TRUE).text))
         IN  CLINICAL_STATUS_NORMALIZATION(raw, IF raw # <<>> THEN raw ELSE <<"unknown">>)

\* the parts of one coding: its display, then its code
CodingParts(coding) ==
    coding.display \o (IF coding.code # "" THEN <<coding.code>> ELSE <<>>)

RECURSIVE JoinCodings(_)
JoinCodings(codings) ==
    IF codings = <<>> THEN <<>>
    ELSE CodingParts(Head(codings)) \o JoinCodings(Tail(codings))

build_searchable_text(condition) ==
    Lower(CodeText(condition) \o JoinCodings(Codings(condition)))

RECURSIVE FirstDisplay(_)
FirstDisplay(codings) ==
    IF codings = <<>> THEN <<"Unknown", "condition">>
    ELSE IF Head(codings).display # <<>> THEN Head(codings).display
    ELSE FirstDisplay(Tail(codings))

pick_display_name(condition) ==
    IF CodeText(condition) # <<>> THEN CodeText(condition)
    ELSE FirstDisplay(Codings(condition))

\* datetime.fromisoformat under try/except ValueError: None for a string
\* that is not ISO 8601, else the datetime it denotes: an instant (hours
\* since an origin) and the UTC offset (hours) the string was written with
ParseDate(optstr) ==
    { [ hours |-> d.hours, offset |-> d.offset ] : d \in { x \in optstr : x.iso } }

\* _parse_onset_dates: <<start, end>>
parse_onset_dates(condition) ==
    IF condition.onsetPeriod = {} THEN << {}, {} >>
    ELSE LET p == CHOOSE q \in condition.onsetPeriod : TRUE
         IN  << ParseDate(p.start), ParseDate(p.end) >>

SecondsPerHour == 3600
ShortDurationSeconds == 86400

detect_quality_flags(condition, icd10, normalized_status, onset_start, onset_end) ==
    LET searchable == build_searchable_text(condition)
        has_end_date == onset_end # {}
        duration ==
            IF onset_start # {} /\ onset_end # {}
            THEN ((CHOOSE e \in onset_end : TRUE).hours
                  - (CHOOSE s \in onset_start : TRUE).hours) * SecondsPerHour
            ELSE 0
    IN  (IF condition.clinicalStatus = {} THEN <<"missing_clinical_status">> ELSE <<>>)
        \o (IF \/ normalized_status = <<"active">> /\ has_end_date
               \/ normalized_status = <<"resolved">> /\ ~has_end_date
            THEN <<"inconsistent_status">> ELSE <<>>)
        \o (IF \E ind \in ADMIN_CODE_INDICATORS : Contains(searchable, ind)
            THEN <<"admin_code">> ELSE <<>>)
        \o (IF \E kw \in VAGUE_ENTRY_KEYWORDS : Contains(searchable, kw)
            THEN <<"vague_entry">> ELSE <<>>)
        \o (IF 0 < duration /\ duration < ShortDurationSeconds
            THEN <<"short_duration">> ELSE <<>>)
        \o (IF icd10 = {} THEN <<"missing_icd10">> ELSE <<>>)

\* _extract_derived_from_ids: of the extensions with that url whose related
\* artifact has type derived-from and a display starting with "Condition/",
\* the display without the prefix, in order.  A display is the sequence of
\* its prefix and its remainder.
extract_derived_from_ids(condition) ==
    LET Names(ext) ==
            /\ ext.url = DERIVED_FROM_EXTENSION_URL
            /\ \E artifact \in ext.valueRelatedArtifact :
                 /\ artifact.type = "derived-from"
                 /\ artifact.display # <<>>
                 /\ Head(artifact.display) = "Condition/"
        named == SelectSeq(condition.extension, Names)
    IN  [ i \in 1..Len(named) |->
            LET display == (CHOOSE a \in named[i].valueRelatedArtifact : TRUE).display
            IN  IF Len(display) > 1 THEN display[2] ELSE "" ]

\* FhirCondition.model_validate(raw) succeeds: raw is a mapping, carries the
\* mandatory id, and its fields have the declared types
Validates(raw) == raw.isMapping /\ raw.id # {} /\ raw.wellTyped

\* build_condition_record for a raw that validates
build_condition_record(raw, batch_number) ==
    LET onset == parse_onset_dates(raw)
        normalized_status == normalize_clinical_status(raw)
        icd10 == CodesOfSystem(raw, ICD10_SYSTEM)
    IN  [ resource_id |-> CHOOSE i \in raw.id : TRUE,
          icd10_codes |-> icd10,
          snomed_codes |-> CodesOfSystem(raw, SNOMED_SYSTEM),
          icd9_codes |-> CodesOfSystem(raw, ICD9_SYSTEM),
          imo_codes |-> CodesOfSystem(raw, IMO_SYSTEM),
          all_codes |-> AllCodes(raw),
          normalized_status |-> normalized_status,
          searchable_text |-> build_searchable_text(raw),
          display_name |-> pick_display_name(raw),
          onset_start |-> onset[1],
          onset_end |-> onset[2],
          quality_flags |->
              detect_quality_flags(raw, icd10, normalized_status, onset[1], onset[2]),
          derived_from_ids |-> extract_derived_from_ids(raw),
          is_removed |-> FALSE,
          removal_reason |-> {},
          removal_timestamp |-> {},
          ingestion_batch |-> batch_number ]


(***************************************************************************)
(* Inputs: the raw resources a batch may hold.                             *)
(***************************************************************************)
Coding(system, code, display) ==
    [ system |-> system, code |-> code, display |-> display ]

RawCondition(id, status, text, coding, onset) ==
    [ isMapping |-> TRUE, wellTyped |-> TRUE, id |-> {id},
      clinicalStatus |-> status,
      code |-> { [ text |-> text, coding |-> coding ] },
      onsetPeriod |-> onset, extension |-> <<>> ]

Status(text) == { [ text |-> text ] }

\* "Hx of Latent TB", coded only in ICD-9, active
RawLatentTB ==
    RawCondition("c1", Status(<<"Active">>), <<"Hx", "of", "Latent", "TB">>,
                 << Coding(ICD9_SYSTEM, "795.51", <<>>) >>, {})

\* "Pulmonary Tuberculosis", ICD-10 A15.0, no clinical status
RawPulmonaryTB ==
    RawCondition("c2", {}, <<"Pulmonary", "Tuberculosis">>,
                 << Coding(ICD10_SYSTEM, "A15.0", <<>>) >>, {})

\* the id of RawLatentTB again, with other content
RawDuplicateId ==
    RawCondition("c1", Status(<<"Resolved">>), <<"Asthma">>,
                 << Coding(ICD10_SYSTEM, "J45.909", <<>>) >>, {})

\* "Carrier", ICD-10 Z22.7
RawCarrier ==
    RawCondition("c3", Status(<<"Active">>), <<"Carrier">>,
                 << Coding(ICD10_SYSTEM, "Z22.7", <<>>) >>, {})

\* "Positive PPD", SNOMED 11999007
RawPositivePPD ==
    RawCondition("c4", Status(<<"Active">>), <<"Positive", "PPD">>,
                 << Coding(SNOMED_SYSTEM, "11999007", <<>>) >>, {})

\* "Admin code", uncoded
RawAdminEntry ==
    RawCondition("c5", {}, <<"Admin", "code">>, <<>>, {})

\* a mapping without the mandatory id
RawMissingId ==
    [ RawDuplicateId EXCEPT !.id = {} ]

\* a mapping whose fields have the wrong types
RawWrongTypes ==
    [ RawDuplicateId EXCEPT !.wellTyped = FALSE ]

\* an entry that is not a mapping at all (a str, a list, None)
RawNotAMapping ==
    [ isMapping |-> FALSE, wellTyped |-> FALSE, id |-> {},
      clinicalStatus |-> {}, code |-> {}, onsetPeriod |-> {},
      extension |-> <<>> ]

\* "Asthma" in remission: a status text the synonym table does not hold
RawRemission ==
    RawCondition("c6", Status(<<" ", "Remission">>), <<"Asthma">>,
                 << Coding(ICD10_SYSTEM, "J45.909", <<>>) >>, {})

\* a clinical status whose text is blank
RawBlankStatus ==
    RawCondition("c7", Status(<<" ">>), <<"Carrier">>,
                 << Coding(ICD10_SYSTEM, "Z22.7", <<>>) >>, {})

\* the SNOMED wording of active
RawQualifierActive ==
    RawCondition("c8", Status(<<"Active", "(Qualifier", "value)", " ">>),
                 <<"Positive", "PPD">>,
                 << Coding(SNOMED_SYSTEM, "11999007", <<>>) >>, {})

\* an ISO 8601 date-time string: the instant it denotes (hours since an
\* origin) and the UTC offset (hours) it is written with
Iso(hours, offset) == { [ iso |-> TRUE, hours |-> hours, offset |-> offset ] }

OnsetPeriod(start, end) == { [ start |-> start, end |-> end ] }

\* two visits for asthma under one ICD-10 code and two names, their onset
\* periods overlapping
RawAsthmaVisit1 ==
    RawCondition("a1", Status(<<"Active">>), <<"Asthma">>,
                 << Coding(ICD10_SYSTEM, "J45.909", <<>>) >>,
                 OnsetPeriod(Iso(0, 0), Iso(48, 0)))

RawAsthmaVisit2 ==
    RawCondition("a2", Status(<<"Resolved">>), <<"Asthma", "unspecified">>,
                 << Coding(ICD10_SYSTEM, "J45.909", <<>>) >>,
                 OnsetPeriod(Iso(24, 0), Iso(72, 0)))

\* two uncoded entries whose names differ in case only
RawGout ==
    RawCondition("g1", Status(<<"Active">>), <<"Gout">>, <<>>, {})

RawGoutUpper ==
    RawCondition("g2", {}, <<"GOUT">>, <<>>, OnsetPeriod(Iso(24, 0), {}))

\* an entry with two ICD-10 codes
RawTwoCodes ==
    RawCondition("m1", Status(<<"Active">>), <<"Asthma">>,
                 << Coding(ICD10_SYSTEM, "Z22.7", <<>>),
                    Coding(ICD10_SYSTEM, "J45.909", <<>>) >>, {})

\* a record consolidated from two others, one named by a reference that
\* does not start with "Condition/"
RawConsolidated ==
    [ RawCondition("k1", Status(<<"Active">>), <<"Positive", "PPD">>,
                   << Coding(ICD9_SYSTEM, "795.51", <<>>),
                      Coding(SNOMED_SYSTEM, "11999007", <<>>) >>, {})
        EXCEPT !.extension =
            << [ url |-> DERIVED_FROM_EXTENSION_URL,
                 valueRelatedArtifact |->
                     { [ type |-> "derived-from", display |-> <<"Condition/", "c4">> ] } ],
               [ url |-> DERIVED_FROM_EXTENSION_URL,
                 valueRelatedArtifact |->
                     { [ type |-> "derived-from", display |-> <<"Patient/", "p1">> ] } ],
               [ url |-> DERIVED_FROM_EXTENSION_URL, valueRelatedArtifact |-> {} ] >> ]

\* the inputs of the ingestion runs
IngestCatalogue ==
    { RawLatentTB, RawPulmonaryTB, RawDuplicateId, RawMissingId, RawNotAMapping }

RawCatalogue ==
    { RawLatentTB, RawPulmonaryTB, RawDuplicateId, RawMissingId, RawNotAMapping,
      RawCarrier, RawPositivePPD, RawAdminEntry, RawWrongTypes }

Reasons == { "not mine", "entered twice" }

(***************************************************************************)
(* condition_store.py.  _records, an insertion-ordered dict keyed by       *)
(* resource_id, is the sequence of its values.                             *)
(***************************************************************************)
Contains_id(recs, resource_id) ==
    \E i \in 1..Len(recs) : recs[i].resource_id = resource_id

IndexOf(recs, resource_id) ==
    CHOOSE i \in 1..Len(recs) : recs[i].resource_id = resource_id

\* add as a last-write-wins insert
add_overwrites(recs, record) ==
    IF Contains_id(recs, record.resource_id)
    THEN [ ret |-> TRUE,
           records |-> [ recs EXCEPT ![IndexOf(recs, record.resource_id)] = record ] ]
    ELSE [ ret |-> TRUE, records |-> Append(recs, record) ]

\* ConditionStore.add: [ret, records]
add(recs, record) ==
    IF Contains_id(recs, record.resource_id)
    THEN [ ret |-> FALSE, records |-> recs ]
    ELSE [ ret |-> TRUE, records |-> Append(recs, record) ]

\* ConditionStore.get_by_id: None or the record
get_by_id(recs, resource_id) ==
    IF Contains_id(recs, resource_id)
    THEN { recs[IndexOf(recs, resource_id)] }
    ELSE {}

IsActive(r) == ~r.is_removed
IsRemoved(r) == r.is_removed

get_all_active(recs) == SelectSeq(recs, IsActive)

get_all_removed(recs) == SelectSeq(recs, IsRemoved)

\* soft_remove without its `or record.is_removed`
soft_remove_again(recs, resource_id, reason, now) ==
    IF ~Contains_id(recs, resource_id)
    THEN [ ret |-> FALSE, records |-> recs ]
    ELSE [ ret |-> TRUE,
           records |-> [ recs EXCEPT ![IndexOf(recs, resource_id)] =
                           [ @ EXCEPT !.is_removed = TRUE,
                                      !.removal_reason = {reason},
                                      !.removal_timestamp = {now} ] ] ]

\* soft_remove without its `record.removal_reason = reason`
soft_remove_no_reason(recs, resource_id, reason, now) ==
    IF ~Contains_id(recs, resource_id) \/ recs[IndexOf(recs, resource_id)].is_removed
    THEN [ ret |-> FALSE, records |-> recs ]
    ELSE [ ret |-> TRUE,
           records |-> [ recs EXCEPT ![IndexOf(recs, resource_id)] =
                           [ @ EXCEPT !.is_removed = TRUE,
                                      !.removal_timestamp = {now} ] ] ]

\* ConditionStore.soft_remove at wall-clock time now: [ret, records]
soft_remove(recs, resource_id, reason, now) ==
    IF ~Contains_id(recs, resource_id) \/ recs[IndexOf(recs, resource_id)].is_removed
    THEN [ ret |-> FALSE, records |-> recs ]
    ELSE [ ret |-> TRUE,
           records |-> [ recs EXCEPT ![IndexOf(recs, resource_id)] =
                           [ @ EXCEPT !.is_removed = TRUE,
                                      !.removal_reason = {reason},
                                      !.removal_timestamp = {now} ] ] ]

total_count(recs) == Len(recs)

active_count(recs) == Len(SelectSeq(recs, IsActive))

removed_count(recs) == Len(SelectSeq(recs, IsRemoved))

(***************************************************************************)
(* corrections.py: the predicate registry                                  *)
(***************************************************************************)
PredicateNames == { "tuberculosis", "admin_codes" }

PREDICATES ==
    [ name \in PredicateNames |->
        IF name = "tuberculosis"
        THEN [ name |-> "tuberculosis",
               text_patterns |-> << <<"tuberculosis">>, <<"latent", "tb">>,
                                    <<"hx", "of", "latent", "tb">> >>,
               icd10_codes |-> { "Z22.7", "Z86.15" },
               snomed_codes |-> { "11999007", "428934008" },
               quality_flags |-> <<>> ]
        ELSE [ name |-> "admin_codes",
               text_patterns |-> <<>>,
               icd10_codes |-> {},
               snomed_codes |-> {},
               quality_flags |-> << "admin_code" >> ] ]

\* _matches_predicate without its test of the SNOMED codes
matches_predicate_no_snomed(record, pred) ==
    \/ \E i \in 1..Len(pred.text_patterns) :
           Contains(record.searchable_text, pred.text_patterns[i])
    \/ pred.icd10_codes # {} /\ (record.icd10_codes \cap pred.icd10_codes) # {}
    \/ \E i \in 1..Len(pred.quality_flags) :
           \E j \in 1..Len(record.quality_flags) :
               record.quality_flags[j] = pred.quality_flags[i]

\* _matches_predicate
matches_predicate(record, pred) ==
    \/ \E i \in 1..Len(pred.text_patterns) :
           Contains(record.searchable_text, pred.text_patterns[i])
    \/ pred.icd10_codes # {} /\ (record.icd10_codes \cap pred.icd10_codes) # {}
    \/ pred.snomed_codes # {} /\ (record.snomed_codes \cap pred.snomed_codes) # {}
    \/ \E i \in 1..Len(pred.quality_flags) :
           \E j \in 1..Len(record.quality_flags) :
               record.quality_flags[j] = pred.quality_flags[i]

\* the resource ids of a list of records, in order
Ids(recs) == [ i \in 1..Len(recs) |-> recs[i].resource_id ]

(***************************************************************************)
(* A dict whose iteration order the code observes: a sequence of           *)
(* [k, v] items in insertion order.                                        *)
(***************************************************************************)
DictHas(d, k) == \E i \in 1..Len(d) : d[i].k = k

DictGet(d, k, default) ==
    IF DictHas(d, k) THEN d[CHOOSE i \in 1..Len(d) : d[i].k = k].v ELSE default

DictSet(d, k, v) ==
    IF DictHas(d, k)
    THEN [ d EXCEPT ![CHOOSE i \in 1..Len(d) : d[i].k = k].v = v ]
    ELSE Append(d, [ k |-> k, v |-> v ])

\* flag_counts after counting every flag of a newly added record
RECURSIVE CountFlags(_, _)
CountFlags(flag_counts, flags) ==
    IF flags = <<>> THEN flag_counts
    ELSE CountFlags(DictSet(flag_counts, Head(flags),
                            DictGet(flag_counts, Head(flags), 0) + 1),
                    Tail(flags))


(***************************************************************************)
(* State.                                                                  *)
(*   records                    ConditionStore._records                    *)
(*   lock                       ConditionStore._lock: the thread that      *)
(*                              holds it, or "none"                        *)
(*   ingestion_batches ...      the four fields of MonitoringDashboard     *)
(*   clock                      the wall clock datetime.now reads          *)
(*   calls                      calls begun so far                         *)
(*   returned                   how many ingest_batch calls have returned  *)
(*                              to their caller, and how many removal      *)
(*                              operations have returned success           *)
(*   pc, frame                  per thread: where its call stands, and     *)
(*                              the call's arguments and locals            *)
(***************************************************************************)
VARIABLES records, lock, ingestion_batches, quality_flags_total, corrections,
          retrieval_latency_samples, clock, calls, returned, pc, frame

vars == << records, lock, ingestion_batches, quality_flags_total, corrections,
           retrieval_latency_samples, clock, calls, returned, pc, frame >>

dashboard == << ingestion_batches, quality_flags_total, corrections,
                retrieval_latency_samples >>

\* datetime.now(): the clock moves on between two readings
Tick(now) == Min(now + 1, MaxClock)

\* BatchMetrics(batch_number, received)
BatchMetrics(batch_number, received) ==
    [ batch_number |-> batch_number, received |-> received, added |-> 0,
      skipped_duplicate |-> 0, errored |-> 0, flags |-> <<>> ]

\* the dict a removal operation returns; message is the kind of its text
Result(success, message, records_removed, removed_conditions, active_remaining) ==
    [ success |-> success, message |-> message,
      records_removed |-> records_removed,
      removed_conditions |-> removed_conditions,
      active_remaining |-> active_remaining ]

NoResult == Result(FALSE, "", 0, <<>>, 0)

\* what retrieve returns: which text, over how many records, and the
\* active count its header quotes
Output(kind, n_records, active) ==
    [ kind |-> kind, records |-> n_records, active |-> active ]

\* the store and the ledger as a call found them
Snapshot ==
    [ records |-> records, ingestion_batches |-> ingestion_batches,
      quality_flags_total |-> quality_flags_total,
      corrections |-> corrections,
      retrieval_latency_samples |-> retrieval_latency_samples ]

NoFrame ==
    [ op |-> "none", target |-> <<>>, code |-> "", resource_id |-> "",
      predicate_name |-> "", reason |-> "", raw_conditions |-> <<>>,
      i |-> 0, metrics |-> BatchMetrics(0, 0), flag_counts |-> <<>>,
      matched |-> <<>>, removed |-> <<>>, read |-> 0, start |-> 0,
      ret |-> FALSE, result |-> NoResult, output |-> Output("", 0, 0),
      raised |-> FALSE, query_type |-> "str", code_system |-> "",
      status |-> <<>>, max_results |-> 0, max_results_type |-> "int",
      canon |-> <<>>, grouped |-> <<>>, sections |-> <<>>, showing_top |-> {},
      pre |-> [ records |-> <<>>, ingestion_batches |-> <<>>,
                quality_flags_total |-> <<>>, corrections |-> <<>>,
                retrieval_latency_samples |-> <<>> ] ]

Init ==
    /\ records = <<>>
    /\ lock = "none"
    /\ ingestion_batches = <<>>
    /\ quality_flags_total = <<>>
    /\ corrections = <<>>
    /\ retrieval_latency_samples = <<>>
    /\ clock = 0
    /\ calls = 0
    /\ returned = [ ingest_batch |-> 0, removals |-> 0 ]
    /\ pc = [ t \in Threads |-> "idle" ]
    /\ frame = [ t \in Threads |-> NoFrame ]

RemovalOps ==
    { "remove_by_text", "remove_by_code", "remove_by_id", "remove_by_predicate" }

\* a call begins: its arguments are bound, its locals initialised
Begin(t, op, f, at) ==
    /\ pc[t] = "idle"
    /\ calls < MaxCalls
    /\ calls' = calls + 1
    /\ frame' = [ frame EXCEPT ![t] = [ f EXCEPT !.op = op, !.pre = Snapshot ] ]
    /\ pc' = [ pc EXCEPT ![t] = at ]
    /\ UNCHANGED << returned, lock, records, dashboard, clock >>

\* the call returns (or its exception leaves it): the frame is dropped
Return(t) ==
    LET f == frame[t] IN
    /\ pc[t] = "return"
    /\ pc' = [ pc EXCEPT ![t] = "idle" ]
    /\ frame' = [ frame EXCEPT ![t] = NoFrame ]
    /\ returned' =
          [ ingest_batch |-> returned.ingest_batch
                + (IF f.op = "ingest_batch" /\ ~f.raised THEN 1 ELSE 0),
            removals |-> returned.removals
                + (IF f.op \in RemovalOps /\ f.result.success THEN 1 ELSE 0) ]
    /\ UNCHANGED << lock, records, dashboard, clock, calls >>

(***************************************************************************)
(* ingestion.py: ingest_batch                                              *)
(***************************************************************************)
BatchNumbers == { 1 }

BeginIngestBatch(t, batches) ==
    \E raw_conditions \in batches, batch_number \in BatchNumbers :
        Begin(t, "ingest_batch",
              [ NoFrame EXCEPT !.raw_conditions = raw_conditions,
                               !.metrics = BatchMetrics(batch_number,
                                                        Len(raw_conditions)),
                               !.i = 1 ],
              "ingest_loop")

\* one round of the loop on an input that does not validate: the handler
\* logs raw.get("id", "?") and counts the input as errored
IngestMalformed(t) ==
    LET f == frame[t] IN
    /\ pc[t] = "ingest_loop"
    /\ f.i <= Len(f.raw_conditions)
    /\ ~Validates(f.raw_conditions[f.i])
    /\ f.raw_conditions[f.i].isMapping
    /\ frame' = [ frame EXCEPT ![t].metrics.errored = @ + 1, ![t].i = @ + 1 ]
    /\ UNCHANGED << returned, lock, records, dashboard, clock, calls, pc >>

\* the same on an input that has no .get: the handler's own
\* raw.get("id", "?") raises AttributeError, which leaves ingest_batch
IngestHandlerRaises(t) ==
    LET f == frame[t] IN
    /\ pc[t] = "ingest_loop"
    /\ f.i <= Len(f.raw_conditions)
    /\ ~Validates(f.raw_conditions[f.i])
    /\ ~f.raw_conditions[f.i].isMapping
    /\ frame' = [ frame EXCEPT ![t].raised = TRUE ]
    /\ pc' = [ pc EXCEPT ![t] = "return" ]
    /\ UNCHANGED << returned, lock, records, dashboard, clock, calls >>

\* one round of the loop on an input that builds: store.add, then the counters
IngestAdd(t) ==
    LET f == frame[t]
        record == build_condition_record(f.raw_conditions[f.i],
                                         f.metrics.batch_number)
        r == add(records, record)
    IN
    /\ pc[t] = "ingest_loop"
    /\ f.i <= Len(f.raw_conditions)
    /\ Validates(f.raw_conditions[f.i])
    /\ records' = r.records
    /\ frame' = [ frame EXCEPT
                    ![t].metrics.added = IF r.ret THEN @ + 1 ELSE @,
                    ![t].metrics.skipped_duplicate = IF r.ret THEN @ ELSE @ + 1,
                    ![t].flag_counts =
                        IF r.ret THEN CountFlags(@, record.quality_flags) ELSE @,
                    ![t].i = @ + 1 ]
    /\ UNCHANGED << returned, lock, dashboard, clock, calls, pc >>

\* after the loop: metrics.flags = flag_counts, and record_batch's append
RecordBatchAppend(t) ==
    LET f == frame[t]
        metrics == [ f.metrics EXCEPT !.flags = f.flag_counts ]
    IN
    /\ pc[t] = "ingest_loop"
    /\ f.i > Len(f.raw_conditions)
    /\ ingestion_batches' = Append(ingestion_batches, metrics)
    /\ frame' = [ frame EXCEPT ![t].metrics = metrics, ![t].i = 1 ]
    /\ pc' = [ pc EXCEPT ![t] =
                 IF metrics.flags = <<>> THEN "return" ELSE "flags_get" ]
    /\ UNCHANGED << returned, lock, records, quality_flags_total, corrections,
                    retrieval_latency_samples, clock, calls >>

\* record_batch's loop: self.quality_flags_total.get(flag_name, 0)
RecordBatchGet(t) ==
    LET f == frame[t] IN
    /\ pc[t] = "flags_get"
    /\ frame' = [ frame EXCEPT ![t].read =
                    DictGet(quality_flags_total, f.metrics.flags[f.i].k, 0) ]
    /\ pc' = [ pc EXCEPT ![t] = "flags_set" ]
    /\ UNCHANGED << returned, lock, records, dashboard, clock, calls >>

\* record_batch's loop: self.quality_flags_total[flag_name] = ... + count
RecordBatchSet(t) ==
    LET f == frame[t] IN
    /\ pc[t] = "flags_set"
    /\ quality_flags_total' =
           DictSet(quality_flags_total, f.metrics.flags[f.i].k,
                   f.read + f.metrics.flags[f.i].v)
    /\ frame' = [ frame EXCEPT ![t].i = @ + 1 ]
    /\ pc' = [ pc EXCEPT ![t] =
                 IF f.i + 1 > Len(f.metrics.flags) THEN "return" ELSE "flags_get" ]
    /\ UNCHANGED << returned, lock, records, ingestion_batches, corrections,
                    retrieval_latency_samples, clock, calls >>


(***************************************************************************)
(* condition_store.py: ConditionStore.soft_remove called on the store      *)
(***************************************************************************)
IdTargets == { "c1", "c2", "c9" }

BeginSoftRemove(t) ==
    \E resource_id \in IdTargets, reason \in Reasons :
        Begin(t, "soft_remove",
              [ NoFrame EXCEPT !.resource_id = resource_id, !.reason = reason ],
              "store_soft_remove")

SoftRemove(t) ==
    LET f == frame[t]
        r == soft_remove(records, f.resource_id, f.reason, clock)
    IN
    /\ pc[t] = "store_soft_remove"
    /\ records' = r.records
    /\ clock' = IF r.ret THEN Tick(clock) ELSE clock
    /\ frame' = [ frame EXCEPT ![t].ret = r.ret ]
    /\ pc' = [ pc EXCEPT ![t] = "return" ]
    /\ UNCHANGED << returned, lock, dashboard, calls >>

(***************************************************************************)
(* corrections.py: CorrectionEngine                                        *)
(***************************************************************************)
\* an atomic string where a text is expected
Str(x) == << x >>

TextTargets == { <<"Latent", "TB">>, <<"Asthma">>, <<"gout">> }
CodeTargets == { "A15.0", "J45.909", "E11.9" }
PredicateTargets == { "tuberculosis", "admin_codes", "cardiac" }

\* remove_by_text: matched, as resource ids
remove_by_text_matched(recs, target) ==
    LET target_lower == Lower(target)
        Test(r) == Contains(r.searchable_text, target_lower)
    IN  Ids(SelectSeq(get_all_active(recs), Test))

\* remove_by_code: matched, as resource ids
remove_by_code_matched(recs, code) ==
    LET Test(r) == code \in r.all_codes
    IN  Ids(SelectSeq(get_all_active(recs), Test))

\* remove_by_predicate: matched, as resource ids
remove_by_predicate_matched(recs, pred) ==
    LET Test(r) == matches_predicate(r, pred)
    IN  Ids(SelectSeq(get_all_active(recs), Test))

\* the target a removal operation hands to _apply_removals or _no_match
TargetOf(f) ==
    CASE f.op = "remove_by_text" -> f.target
      [] f.op = "remove_by_code" -> Str(f.code)
      [] f.op = "remove_by_id" -> Str(f.resource_id)
      [] f.op = "remove_by_predicate" -> Str(f.predicate_name)

BeginRemoveByText(t) ==
    \E target \in TextTargets, reason \in Reasons :
        Begin(t, "remove_by_text",
              [ NoFrame EXCEPT !.target = target, !.reason = reason ], "match")

BeginRemoveByCode(t) ==
    \E code \in CodeTargets, reason \in Reasons :
        Begin(t, "remove_by_code",
              [ NoFrame EXCEPT !.code = code, !.reason = reason ], "match")

BeginRemoveById(t) ==
    \E resource_id \in IdTargets, reason \in Reasons :
        Begin(t, "remove_by_id",
              [ NoFrame EXCEPT !.resource_id = resource_id, !.reason = reason ],
              "get_by_id")

\* remove_by_predicate up to PREDICATES.get(predicate_name)
BeginRemoveByPredicate(t) ==
    \E predicate_name \in PredicateTargets, reason \in Reasons :
        Begin(t, "remove_by_predicate",
              [ NoFrame EXCEPT !.predicate_name = predicate_name,
                               !.reason = reason ],
              IF predicate_name \in PredicateNames
              THEN "match" ELSE "unknown_predicate")

\* matched = [r for r in self.store.get_all_active() if ...], and the
\* `if not matched` of _apply_removals
Match(t) ==
    LET f == frame[t]
        matched ==
            CASE f.op = "remove_by_text" ->
                     remove_by_text_matched(records, f.target)
              [] f.op = "remove_by_code" ->
                     remove_by_code_matched(records, f.code)
              [] f.op = "remove_by_predicate" ->
                     remove_by_predicate_matched(records,
                                                 PREDICATES[f.predicate_name])
    IN
    /\ pc[t] = "match"
    /\ frame' = [ frame EXCEPT ![t].matched = matched, ![t].i = 1 ]
    /\ pc' = [ pc EXCEPT ![t] =
                 IF matched = <<>> THEN "no_match" ELSE "soft_remove" ]
    /\ UNCHANGED << returned, lock, records, dashboard, clock, calls >>

\* remove_by_id: record = self.store.get_by_id(resource_id)
GetById(t) ==
    /\ pc[t] = "get_by_id"
    /\ pc' = [ pc EXCEPT ![t] =
                 IF get_by_id(records, frame[t].resource_id) = {}
                 THEN "no_match" ELSE "is_removed" ]
    /\ UNCHANGED << returned, lock, records, dashboard, clock, calls, frame >>

\* remove_by_id without its `if record.is_removed` branch
CheckIsRemovedSkipped(t) ==
    /\ pc[t] = "is_removed"
    /\ frame' = [ frame EXCEPT ![t].matched = << frame[t].resource_id >>,
                               ![t].i = 1 ]
    /\ pc' = [ pc EXCEPT ![t] = "soft_remove" ]
    /\ UNCHANGED << returned, lock, records, dashboard, clock, calls >>

\* remove_by_id: `if record.is_removed`, read from the stored record
CheckIsRemoved(t) ==
    LET f == frame[t]
        record == records[IndexOf(records, f.resource_id)]
    IN
    /\ pc[t] = "is_removed"
    /\ frame' = [ frame EXCEPT ![t].matched = << f.resource_id >>, ![t].i = 1 ]
    /\ pc' = [ pc EXCEPT ![t] =
                 IF record.is_removed THEN "already_removed" ELSE "soft_remove" ]
    /\ UNCHANGED << returned, lock, records, dashboard, clock, calls >>

\* _apply_removals' loop with an audit entry written per removed record
ApplyRemovalAudited(t) ==
    LET f == frame[t]
        resource_id == f.matched[f.i]
        r == soft_remove(records, resource_id, f.reason, clock)
        label == [ display_name |->
                       records[IndexOf(records, resource_id)].display_name,
                   resource_id |-> resource_id ]
    IN
    /\ pc[t] = "soft_remove"
    /\ records' = r.records
    /\ clock' = IF r.ret THEN Tick(clock) ELSE clock
    /\ corrections' =
           IF r.ret
           THEN Append(corrections,
                       [ timestamp |-> clock, action |-> f.op,
                         target |-> TargetOf(f), reason |-> f.reason,
                         records_affected |-> 1 ])
           ELSE corrections
    /\ frame' = [ frame EXCEPT
                    ![t].removed = IF r.ret THEN Append(@, label) ELSE @,
                    ![t].i = @ + 1 ]
    /\ pc' = [ pc EXCEPT ![t] =
                 IF f.i + 1 > Len(f.matched)
                 THEN "record_correction" ELSE "soft_remove" ]
    /\ UNCHANGED << returned, lock, ingestion_batches, quality_flags_total,
                    retrieval_latency_samples, calls >>

\* _apply_removals: one round of `for record in matched`
ApplyRemoval(t) ==
    LET f == frame[t]
        resource_id == f.matched[f.i]
        r == soft_remove(records, resource_id, f.reason, clock)
        label == [ display_name |->
                       records[IndexOf(records, resource_id)].display_name,
                   resource_id |-> resource_id ]
    IN
    /\ pc[t] = "soft_remove"
    /\ records' = r.records
    /\ clock' = IF r.ret THEN Tick(clock) ELSE clock
    /\ frame' = [ frame EXCEPT
                    ![t].removed = IF r.ret THEN Append(@, label) ELSE @,
                    ![t].i = @ + 1 ]
    /\ pc' = [ pc EXCEPT ![t] =
                 IF f.i + 1 > Len(f.matched)
                 THEN "record_correction" ELSE "soft_remove" ]
    /\ UNCHANGED << returned, lock, dashboard, calls >>

\* MonitoringDashboard.record_correction at wall-clock time now
record_correction(corrs, action, target, reason, records_affected, now) ==
    Append(corrs, [ timestamp |-> now, action |-> action, target |-> target,
                    reason |-> reason, records_affected |-> records_affected ])

\* _apply_removals recording len(matched) in place of len(removed)
RecordCorrectionMatched(t) ==
    LET f == frame[t] IN
    /\ pc[t] = "record_correction"
    /\ corrections' = record_correction(corrections, f.op, TargetOf(f), f.reason,
                                        Len(f.matched), clock)
    /\ clock' = Tick(clock)
    /\ pc' = [ pc EXCEPT ![t] = "removed" ]
    /\ UNCHANGED << returned, lock, records, ingestion_batches, quality_flags_total,
                    retrieval_latency_samples, calls, frame >>

\* _apply_removals: self.dashboard.record_correction(..., len(removed))
RecordCorrection(t) ==
    LET f == frame[t] IN
    /\ pc[t] = "record_correction"
    /\ corrections' = record_correction(corrections, f.op, TargetOf(f), f.reason,
                                        Len(f.removed), clock)
    /\ clock' = Tick(clock)
    /\ pc' = [ pc EXCEPT ![t] = "removed" ]
    /\ UNCHANGED << returned, lock, records, ingestion_batches, quality_flags_total,
                    retrieval_latency_samples, calls, frame >>

\* a result dict is built around self.store.active_count
Respond(t, at, success, message) ==
    LET f == frame[t] IN
    /\ pc[t] = at
    /\ frame' = [ frame EXCEPT ![t].result =
                    Result(success, message, Len(f.removed), f.removed,
                           active_count(records)) ]
    /\ pc' = [ pc EXCEPT ![t] = "return" ]
    /\ UNCHANGED << returned, lock, records, dashboard, clock, calls >>

\* _apply_removals' return
Removed(t) == Respond(t, "removed", TRUE, "Removed")

\* _no_match
NoMatch(t) == Respond(t, "no_match", FALSE, "No active conditions found matching")

\* _already_removed
AlreadyRemoved(t) == Respond(t, "already_removed", FALSE, "is already removed")

\* remove_by_predicate's `if pred is None`
UnknownPredicate(t) == Respond(t, "unknown_predicate", FALSE, "Unknown predicate")

(***************************************************************************)
(* retrieval.py: filters, grouping, overlap detection, formatting          *)
(***************************************************************************)
\* datetime.isoformat(): the local time, then the offset.  Two such strings
\* compare as the pairs << local time, offset >> do.
isoformat(dt) == << dt.hours + dt.offset, dt.offset >>

\* `a < b` on two strings that isoformat gave
StrLess(a, b) == a[1] < b[1] \/ (a[1] = b[1] /\ a[2] < b[2])

\* isoformat()[:10], the calendar day of the local time
IsoDay(dt) == isoformat(dt)[1] \div 24

\* _canonical_code that takes the name of every record, coded or not
canonical_code_by_name(record) ==
    { [ code |-> Lower(record.display_name), label |-> "text" ] }

\* _canonical_code: the (code, label) pairs it may return.  next(iter(s))
\* gives whichever element the set happens to iterate first.
canonical_code(record) ==
    IF record.icd10_codes # {}
    THEN { [ code |-> Str(c), label |-> "ICD-10" ] : c \in record.icd10_codes }
    ELSE IF record.snomed_codes # {}
    THEN { [ code |-> Str(c), label |-> "SNOMED" ] : c \in record.snomed_codes }
    ELSE IF record.icd9_codes # {}
    THEN { [ code |-> Str(c), label |-> "ICD-9" ] : c \in record.icd9_codes }
    ELSE { [ code |-> Lower(record.display_name), label |-> "text" ] }

\* _code_labels; a label with no codes stands for an absent key
code_labels(record) ==
    [ ICD10 |-> record.icd10_codes, SNOMED |-> record.snomed_codes,
      ICD9 |-> record.icd9_codes, IMO |-> record.imo_codes ]

\* _matches_text
matches_text(record, query) == Contains(record.searchable_text, Lower(query))

\* _matches_code; code_system is "" for None
matches_code(record, code, code_system) ==
    LET system == LowerTok(code_system) IN
    CASE code_system # "" /\ system \in { "icd10", "icd-10" } ->
             code \in record.icd10_codes
      [] code_system # "" /\ system = "snomed" -> code \in record.snomed_codes
      [] code_system # "" /\ system \in { "icd9", "icd-9" } ->
             code \in record.icd9_codes
      [] code_system # "" /\ system = "imo" -> code \in record.imo_codes
      [] OTHER -> code \in record.all_codes

\* _matches_status
matches_status(record, status) == record.normalized_status = Lower(status)

\* sorted(onset_periods, key=lambda p: p[0]), a stable sort: p is put
\* behind every period that does not start after it
RECURSIVE InsertPeriod(_, _)
InsertPeriod(sorted_periods, p) ==
    IF sorted_periods = <<>> THEN << p >>
    ELSE IF StrLess(p[1], Head(sorted_periods)[1]) THEN << p >> \o sorted_periods
    ELSE << Head(sorted_periods) >> \o InsertPeriod(Tail(sorted_periods), p)

RECURSIVE SortPeriods(_)
SortPeriods(onset_periods) ==
    IF onset_periods = <<>> THEN <<>>
    ELSE InsertPeriod(SortPeriods(SubSeq(onset_periods, 1, Len(onset_periods) - 1)),
                      onset_periods[Len(onset_periods)])

\* _detect_overlapping_onset_periods
detect_overlapping_onset_periods(onset_periods) ==
    LET sorted_periods == SortPeriods(onset_periods) IN
    \E i \in 2..Len(sorted_periods) :
        StrLess(sorted_periods[i][1], sorted_periods[i - 1][2])

\* ConditionGroup(canonical_code=..., ...) for the first record of a code;
\* onset_periods is onset_periods_by_group[code]
ConditionGroup(c, record) ==
    [ canonical_code |-> c.code, code_system_label |-> c.label,
      display_name |-> record.display_name, all_codes |-> code_labels(record),
      statuses |-> {}, encounter_count |-> 0,
      earliest_onset |-> {}, latest_onset |-> {}, quality_flags |-> {},
      has_overlapping_dates |-> FALSE, consolidated_record_count |-> 0,
      derived_from_source_count |-> 0, onset_periods |-> <<>> ]

\* one round of the loop of group_by_canonical_code on the record's group
GroupRecord(group, record) ==
    LET labels == code_labels(record)
        onset_str == { IsoDay(dt) : dt \in record.onset_start }
    IN  [ group EXCEPT
            !.encounter_count = @ + 1,
            !.statuses = @ \cup { record.normalized_status },
            !.quality_flags =
                @ \cup { record.quality_flags[i] : i \in 1..Len(record.quality_flags) },
            !.consolidated_record_count =
                IF record.derived_from_ids # <<>> THEN @ + 1 ELSE @,
            !.derived_from_source_count = @ + Len(record.derived_from_ids),
            !.all_codes = [ ICD10 |-> @.ICD10 \cup labels.ICD10,
                            SNOMED |-> @.SNOMED \cup labels.SNOMED,
                            ICD9 |-> @.ICD9 \cup labels.ICD9,
                            IMO |-> @.IMO \cup labels.IMO ],
            !.earliest_onset =
                IF @ = {} \/ (\E d \in onset_str : \E e \in @ : d < e)
                THEN (IF onset_str # {} THEN onset_str ELSE @) ELSE @,
            !.latest_onset =
                IF @ = {} \/ (\E d \in onset_str : \E e \in @ : d > e)
                THEN (IF onset_str # {} THEN onset_str ELSE @) ELSE @,
            !.onset_periods =
                IF record.onset_start # {} /\ record.onset_end # {}
                THEN Append(@, << isoformat(CHOOSE dt \in record.onset_start : TRUE),
                                  isoformat(CHOOSE dt \in record.onset_end : TRUE) >>)
                ELSE @ ]

\* the first loop of group_by_canonical_code: groups, in the order in which
\* their codes were first seen; canon[i] is what _canonical_code returned
\* for records[i]
RECURSIVE GroupLoop(_, _, _)
GroupLoop(groups, recs, canon) ==
    IF recs = <<>> THEN groups
    ELSE LET record == Head(recs)
             c == Head(canon)
             known == \E k \in 1..Len(groups) : groups[k].canonical_code = c.code
             gs == IF known THEN groups ELSE Append(groups, ConditionGroup(c, record))
             k == CHOOSE j \in 1..Len(gs) : gs[j].canonical_code = c.code
         IN  GroupLoop([ gs EXCEPT ![k] = GroupRecord(@, record) ],
                       Tail(recs), Tail(canon))

\* the second loop: `if len(periods) >= 2 and _detect_...(periods)`
has_overlapping_dates(periods) ==
    Len(periods) >= 2 /\ detect_overlapping_onset_periods(periods)

MarkOverlaps(groups) ==
    [ k \in 1..Len(groups) |->
        [ groups[k] EXCEPT !.has_overlapping_dates =
                               has_overlapping_dates(groups[k].onset_periods) ] ]

\* sorted(groups.values(), key=encounter_count, reverse=True): stable, a
\* group is put behind every group that has no fewer encounters
RECURSIVE InsertGroup(_, _)
InsertGroup(sorted_groups, g) ==
    IF sorted_groups = <<>> THEN << g >>
    ELSE IF Head(sorted_groups).encounter_count < g.encounter_count
    THEN << g >> \o sorted_groups
    ELSE << Head(sorted_groups) >> \o InsertGroup(Tail(sorted_groups), g)

RECURSIVE SortGroups(_)
SortGroups(groups) ==
    IF groups = <<>> THEN <<>>
    ELSE InsertGroup(SortGroups(SubSeq(groups, 1, Len(groups) - 1)),
                     groups[Len(groups)])

\* group_by_canonical_code
group_by_canonical_code(recs, canon) ==
    SortGroups(MarkOverlaps(GroupLoop(<<>>, recs, canon)))

\* QUALITY_FLAG_METADATA: the flags of severity high or medium
NotableFlags ==
    { "admin_code", "vague_entry", "missing_clinical_status", "inconsistent_status" }

\* format_group_for_llm: what the section of a group says
format_group_for_llm(group) ==
    [ title |-> group.display_name,
      codes |-> group.all_codes,
      status |-> group.statuses,
      encounters |-> group.encounter_count,
      date_range |->
          IF group.earliest_onset = {} THEN <<>>
          ELSE IF group.latest_onset # {} /\ group.earliest_onset # group.latest_onset
          THEN << group.earliest_onset, group.latest_onset >>
          ELSE << group.earliest_onset >>,
      overlap_note |-> group.has_overlapping_dates,
      consolidated_note |->
          IF group.consolidated_record_count > 0
          THEN << group.consolidated_record_count, group.derived_from_source_count >>
          ELSE <<>>,
      warning |-> group.quality_flags \cap NotableFlags ]

(***************************************************************************)
(* retrieval.py: retrieve, inside `with LatencyTracker(dashboard)`         *)
(***************************************************************************)
Queries == { <<>>, <<"Asthma">>, <<"gout">> }

\* max_results: int = 20
DefaultMaxResults == 20

\* the arguments of one call of retrieve.  An absent query or status is the
\* empty text, an absent code or code_system is "".  Nothing makes the
\* caller pass a str and an int: query_type and max_results_type say what
\* was passed.
RetrieveArgs(query, code, code_system, status, max_results) ==
    [ query |-> query, query_type |-> "str", code |-> code,
      code_system |-> code_system, status |-> status,
      max_results |-> max_results, max_results_type |-> "int" ]

\* the calls of the one-caller specification
Retrievals ==
    { RetrieveArgs(query, "", "", <<>>, DefaultMaxResults) : query \in Queries }
    \cup { [ RetrieveArgs(<<"5">>, "", "", <<>>, DefaultMaxResults)
               EXCEPT !.query_type = "int" ],
           [ RetrieveArgs(<<>>, "", "", <<>>, DefaultMaxResults)
               EXCEPT !.max_results_type = "str" ] }

\* LatencyTracker.__enter__
BeginRetrieve(t, retrievals) ==
    \E args \in retrievals :
        Begin(t, "retrieve",
              [ NoFrame EXCEPT !.target = args.query, !.query_type = args.query_type,
                               !.code = args.code, !.code_system = args.code_system,
                               !.status = args.status,
                               !.max_results = args.max_results,
                               !.max_results_type = args.max_results_type,
                               !.start = clock ],
              "candidates")

\* candidates = store.get_all_active(), then the three filters
retrieve_candidates(recs, f) ==
    LET Test(r) == /\ f.target # <<>> => matches_text(r, f.target)
                   /\ f.code # "" => matches_code(r, f.code, f.code_system)
                   /\ f.status # <<>> => matches_status(r, f.status)
    IN  Ids(SelectSeq(get_all_active(recs), Test))

\* query.lower() of a query that is no str raises, once there is a record
\* to test
FilterRaises(recs, f) ==
    f.target # <<>> /\ f.query_type # "str" /\ get_all_active(recs) # <<>>

RetrieveCandidates(t) ==
    LET f == frame[t]
        candidates == retrieve_candidates(records, f)
    IN
    /\ pc[t] = "candidates"
    /\ IF FilterRaises(records, f)
       THEN /\ frame' = [ frame EXCEPT ![t].raised = TRUE ]
            /\ pc' = [ pc EXCEPT ![t] = "latency_exit" ]
       ELSE /\ frame' = [ frame EXCEPT
                            ![t].matched = candidates,
                            ![t].output =
                                IF candidates = <<>>
                                THEN Output("No conditions found matching", 0, 0)
                                ELSE @ ]
            /\ pc' = [ pc EXCEPT ![t] =
                         IF candidates = <<>> THEN "latency_exit" ELSE "group" ]
    /\ UNCHANGED << returned, lock, records, dashboard, clock, calls >>

\* grouped[:max_results]
Slice(s, n) ==
    IF n >= 0 THEN SubSeq(s, 1, Min(n, Len(s)))
    ELSE SubSeq(s, 1, IF Len(s) + n >= 0 THEN Len(s) + n ELSE 0)

\* what _canonical_code may return for each of the records, in order
RECURSIVE CanonicalCodes(_)
CanonicalCodes(recs) ==
    IF recs = <<>> THEN { <<>> }
    ELSE { << c >> \o rest : c \in canonical_code(Head(recs)),
                             rest \in CanonicalCodes(Tail(recs)) }

\* grouped = group_by_canonical_code(candidates); limited; sections
RetrieveGroup(t) ==
    LET f == frame[t]
        candidates == [ i \in 1..Len(f.matched) |-> records[IndexOf(records, f.matched[i])] ]
    IN
    /\ pc[t] = "group"
    /\ \E canon \in CanonicalCodes(candidates) :
          /\ LET grouped == group_by_canonical_code(candidates, canon)
                 limited == Slice(grouped, f.max_results)
             IN  IF f.max_results_type # "int"
                 THEN /\ frame' = [ frame EXCEPT ![t].canon = canon,
                                                 ![t].grouped = grouped,
                                                 ![t].raised = TRUE ]
                      /\ pc' = [ pc EXCEPT ![t] = "latency_exit" ]
                 ELSE /\ frame' = [ frame EXCEPT
                                      ![t].canon = canon,
                                      ![t].grouped = grouped,
                                      ![t].sections =
                                          [ k \in 1..Len(limited) |->
                                              format_group_for_llm(limited[k]) ] ]
                      /\ pc' = [ pc EXCEPT ![t] = "header" ]
    /\ UNCHANGED << returned, lock, records, dashboard, clock, calls >>

\* the header, which notes a truncation and quotes store.active_count
RetrieveHeader(t) ==
    LET f == frame[t] IN
    /\ pc[t] = "header"
    /\ frame' = [ frame EXCEPT
                    ![t].output =
                        Output("Found", Len(f.matched), active_count(records)),
                    ![t].showing_top =
                        IF Len(f.grouped) > f.max_results
                        THEN { f.max_results } ELSE {} ]
    /\ pc' = [ pc EXCEPT ![t] = "latency_exit" ]
    /\ UNCHANGED << returned, lock, records, dashboard, clock, calls >>

\* LatencyTracker.__exit__ that records nothing when the block raised
LatencyExitOnSuccess(t) ==
    /\ pc[t] = "latency_exit"
    /\ retrieval_latency_samples' =
           IF frame[t].raised THEN retrieval_latency_samples
           ELSE Append(retrieval_latency_samples, clock - frame[t].start)
    /\ pc' = [ pc EXCEPT ![t] = "return" ]
    /\ UNCHANGED << returned, lock, records, ingestion_batches, quality_flags_total,
                    corrections, clock, calls, frame >>

\* LatencyTracker.__exit__: record_retrieval_latency(elapsed_ms), however
\* the block was left
LatencyExit(t) ==
    /\ pc[t] = "latency_exit"
    /\ retrieval_latency_samples' =
           Append(retrieval_latency_samples, clock - frame[t].start)
    /\ pc' = [ pc EXCEPT ![t] = "return" ]
    /\ UNCHANGED << returned, lock, records, ingestion_batches, quality_flags_total,
                    corrections, clock, calls, frame >>

(***************************************************************************)
(* condition_store.py: ConditionStore, statement by statement.  Each       *)
(* method is `with self._lock:` around a body; the body is taken apart     *)
(* into the steps at which another thread could run if the lock did not    *)
(* keep it out.  (The lock is reentrant, but no method of the store calls  *)
(* another one while holding it, so only its owner is kept.)               *)
(*   pc = "acquire"   at `with self._lock:`                                *)
(*   pc = the method's name, or one of its later statements: in the body   *)
(*   pc = "release"   at the return statement, leaving the with block      *)
(***************************************************************************)
StoreInputs == { RawLatentTB, RawDuplicateId, RawPulmonaryTB }

StoreIds == { "c1", "c9" }

ListOps == { "get_all_active", "get_all_removed" }

CountOps == { "active_count", "removed_count" }

\* the record that an add call was given
ArgRecord(f) == build_condition_record(f.raw_conditions[1], 1)

CallAdd(t) ==
    \E raw \in StoreInputs :
        Begin(t, "add", [ NoFrame EXCEPT !.raw_conditions = << raw >> ],
              "acquire")

CallSoftRemove(t) ==
    \E resource_id \in StoreIds, reason \in Reasons :
        Begin(t, "soft_remove",
              [ NoFrame EXCEPT !.resource_id = resource_id, !.reason = reason ],
              "acquire")

CallRead(t) ==
    \E op \in ListOps \cup CountOps \cup { "total_count" } :
        Begin(t, op, NoFrame, "acquire")

\* `with self._lock:` that lets a thread in while another holds the lock
LockAcquireShared(t) ==
    /\ pc[t] = "acquire"
    /\ lock' = t
    /\ frame' = [ frame EXCEPT ![t].pre = Snapshot, ![t].i = 1 ]
    /\ pc' = [ pc EXCEPT ![t] = frame[t].op ]
    /\ UNCHANGED << returned, records, dashboard, clock, calls >>

\* `with self._lock:`; pre remembers the store the thread finds
LockAcquire(t) ==
    /\ pc[t] = "acquire"
    /\ lock = "none"
    /\ lock' = t
    /\ frame' = [ frame EXCEPT ![t].pre = Snapshot, ![t].i = 1 ]
    /\ pc' = [ pc EXCEPT ![t] = frame[t].op ]
    /\ UNCHANGED << returned, records, dashboard, clock, calls >>

\* leaving the with block on return
LockRelease(t) ==
    /\ pc[t] = "release"
    /\ lock' = "none"
    /\ pc' = [ pc EXCEPT ![t] = "return" ]
    /\ UNCHANGED << returned, records, dashboard, clock, calls, frame >>

\* add: `if record.resource_id in self._records: return False`
AddCheck(t) ==
    /\ pc[t] = "add"
    /\ IF Contains_id(records, ArgRecord(frame[t]).resource_id)
       THEN /\ frame' = [ frame EXCEPT ![t].ret = FALSE ]
            /\ pc' = [ pc EXCEPT ![t] = "release" ]
       ELSE /\ pc' = [ pc EXCEPT ![t] = "add_store" ]
            /\ UNCHANGED frame
    /\ UNCHANGED << returned, lock, records, dashboard, clock, calls >>

\* self._records[key] = record: the value of an old key is replaced, a new
\* key goes last
SetItem(recs, record) ==
    IF Contains_id(recs, record.resource_id)
    THEN [ recs EXCEPT ![IndexOf(recs, record.resource_id)] = record ]
    ELSE Append(recs, record)

\* add: `self._records[record.resource_id] = record; return True`
AddStore(t) ==
    /\ pc[t] = "add_store"
    /\ records' = SetItem(records, ArgRecord(frame[t]))
    /\ frame' = [ frame EXCEPT ![t].ret = TRUE ]
    /\ pc' = [ pc EXCEPT ![t] = "release" ]
    /\ UNCHANGED << returned, lock, dashboard, clock, calls >>

\* soft_remove: the lookup and `if record is None or record.is_removed`
SoftRemoveGet(t) ==
    LET record == get_by_id(records, frame[t].resource_id) IN
    /\ pc[t] = "soft_remove"
    /\ IF record = {} \/ (\E r \in record : r.is_removed)
       THEN /\ frame' = [ frame EXCEPT ![t].ret = FALSE ]
            /\ pc' = [ pc EXCEPT ![t] = "release" ]
       ELSE /\ pc' = [ pc EXCEPT ![t] = "set_is_removed" ]
            /\ UNCHANGED frame
    /\ UNCHANGED << returned, lock, records, dashboard, clock, calls >>

\* soft_remove: `record.is_removed = True`
SetIsRemoved(t) ==
    /\ pc[t] = "set_is_removed"
    /\ records' = [ records EXCEPT
                      ![IndexOf(records, frame[t].resource_id)].is_removed = TRUE ]
    /\ pc' = [ pc EXCEPT ![t] = "set_removal_reason" ]
    /\ UNCHANGED << returned, lock, dashboard, clock, calls, frame >>

\* soft_remove: `record.removal_reason = reason`
SetRemovalReason(t) ==
    /\ pc[t] = "set_removal_reason"
    /\ records' = [ records EXCEPT
                      ![IndexOf(records, frame[t].resource_id)].removal_reason =
                          { frame[t].reason } ]
    /\ pc' = [ pc EXCEPT ![t] = "set_removal_timestamp" ]
    /\ UNCHANGED << returned, lock, dashboard, clock, calls, frame >>

\* soft_remove: `record.removal_timestamp = datetime.now(...); return True`
SetRemovalTimestamp(t) ==
    /\ pc[t] = "set_removal_timestamp"
    /\ records' = [ records EXCEPT
                      ![IndexOf(records, frame[t].resource_id)].removal_timestamp =
                          { clock } ]
    /\ clock' = Tick(clock)
    /\ frame' = [ frame EXCEPT ![t].ret = TRUE ]
    /\ pc' = [ pc EXCEPT ![t] = "release" ]
    /\ UNCHANGED << returned, lock, dashboard, calls >>

\* whether a pass over the values keeps record r
Keeps(op, r) ==
    IF op \in { "get_all_active", "active_count" }
    THEN ~r.is_removed
    ELSE r.is_removed

\* get_all_active, get_all_removed, active_count, removed_count: the pass
\* over self._records.values() looks at its next record; a list collects
\* the record (a reference, kept here as its id), a count adds one
Scan(t) ==
    LET f == frame[t]
        r == records[f.i]
    IN
    /\ pc[t] \in ListOps \cup CountOps
    /\ f.i <= Len(records)
    /\ frame' = [ frame EXCEPT
                    ![t].i = @ + 1,
                    ![t].matched = IF f.op \in ListOps /\ Keeps(f.op, r)
                                   THEN Append(@, r.resource_id) ELSE @,
                    ![t].read = IF f.op \in CountOps /\ Keeps(f.op, r)
                                THEN @ + 1 ELSE @ ]
    /\ UNCHANGED << returned, lock, records, dashboard, clock, calls, pc >>

\* the pass is over
ScanEnd(t) ==
    /\ pc[t] \in ListOps \cup CountOps
    /\ frame[t].i > Len(records)
    /\ pc' = [ pc EXCEPT ![t] = "release" ]
    /\ UNCHANGED << returned, lock, records, dashboard, clock, calls, frame >>

\* total_count: `return len(self._records)`
TotalCount(t) ==
    /\ pc[t] = "total_count"
    /\ frame' = [ frame EXCEPT ![t].read = Len(records) ]
    /\ pc' = [ pc EXCEPT ![t] = "release" ]
    /\ UNCHANGED << returned, lock, records, dashboard, clock, calls >>

StoreCall(t) ==
    \/ CallAdd(t)
    \/ CallSoftRemove(t)
    \/ CallRead(t)

StoreStep(t) ==
    \/ LockAcquire(t)
    \/ AddCheck(t)
    \/ AddStore(t)
    \/ SoftRemoveGet(t)
    \/ SetIsRemoved(t)
    \/ SetRemovalReason(t)
    \/ SetRemovalTimestamp(t)
    \/ Scan(t)
    \/ ScanEnd(t)
    \/ TotalCount(t)
    \/ LockRelease(t)
    \/ Return(t)

(***************************************************************************)
(* condition_store.py: ConditionStore.iterate, get_all_active and          *)
(* get_all_removed seen from their caller.  iterate is a generator: its    *)
(* body runs from the caller's first next(), copies the values under the   *)
(* lock and then yields them one by one, the caller running in between.    *)
(* list(...) and the list comprehensions copy the list, not the records:   *)
(* what the caller gets are the ConditionRecord objects of _records        *)
(* themselves.  A reference is kept here as the id of its record, and an   *)
(* assignment through it lands in records.                                 *)
(***************************************************************************)
HandoutOps == { "iterate", "get_all_active", "get_all_removed" }

\* the call; for iterate no statement of the body has run yet
BeginHandout(t) ==
    \E op \in HandoutOps : Begin(t, op, NoFrame, "copy")

\* `with self._lock:` and the copy made under it
Handout(op, recs) ==
    CASE op = "iterate" -> Ids(recs)
      [] op = "get_all_active" -> Ids(get_all_active(recs))
      [] op = "get_all_removed" -> Ids(get_all_removed(recs))

HandoutCopy(t) ==
    /\ pc[t] = "copy"
    /\ frame' = [ frame EXCEPT ![t].matched = Handout(frame[t].op, records),
                               ![t].pre = Snapshot,
                               ![t].i = 1 ]
    /\ pc' = [ pc EXCEPT ![t] = "yield" ]
    /\ UNCHANGED << returned, lock, records, dashboard, clock, calls >>

\* `yield from records`, or the caller's own loop over the list it got:
\* the caller now holds the next record
HandoutYield(t) ==
    LET f == frame[t] IN
    /\ pc[t] = "yield"
    /\ f.i <= Len(f.matched)
    /\ frame' = [ frame EXCEPT ![t].resource_id = f.matched[f.i],
                               ![t].i = @ + 1 ]
    /\ UNCHANGED << returned, lock, records, dashboard, clock, calls, pc >>

\* the copy is exhausted
HandoutEnd(t) ==
    /\ pc[t] = "yield"
    /\ frame[t].i > Len(frame[t].matched)
    /\ pc' = [ pc EXCEPT ![t] = "return" ]
    /\ UNCHANGED << returned, lock, records, dashboard, clock, calls, frame >>

\* the caller assigns to is_removed of the record it holds; read counts
\* its assignments
CallerSetsIsRemoved(t) ==
    LET f == frame[t] IN
    /\ pc[t] = "yield"
    /\ f.resource_id # ""
    /\ f.read = 0
    /\ \E value \in BOOLEAN :
           records' = [ records EXCEPT
                          ![IndexOf(records, f.resource_id)].is_removed = value ]
    /\ frame' = [ frame EXCEPT ![t].read = @ + 1 ]
    /\ UNCHANGED << returned, lock, dashboard, clock, calls, pc >>

HandoutStep(t) ==
    \/ HandoutCopy(t)
    \/ HandoutYield(t)
    \/ HandoutEnd(t)
    \/ CallerSetsIsRemoved(t)

(***************************************************************************)
(* Specifications.                                                         *)
(***************************************************************************)
IngestStep(t) ==
    \/ IngestMalformed(t)
    \/ IngestHandlerRaises(t)
    \/ IngestAdd(t)
    \/ RecordBatchAppend(t)
    \/ RecordBatchGet(t)
    \/ RecordBatchSet(t)

CorrectionStep(t) ==
    \/ Match(t)
    \/ GetById(t)
    \/ CheckIsRemoved(t)
    \/ ApplyRemoval(t)
    \/ RecordCorrection(t)
    \/ Removed(t)
    \/ NoMatch(t)
    \/ AlreadyRemoved(t)
    \/ UnknownPredicate(t)

RetrieveStep(t) ==
    \/ RetrieveCandidates(t)
    \/ RetrieveGroup(t)
    \/ RetrieveHeader(t)
    \/ LatencyExit(t)

BeginCorrection(t) ==
    \/ BeginRemoveByText(t)
    \/ BeginRemoveByCode(t)
    \/ BeginRemoveById(t)
    \/ BeginRemoveByPredicate(t)

\* the batches of no or one input
SmallBatches == { <<>> } \cup { << raw >> : raw \in RawCatalogue }

\* One caller at a time, every call running to its return before the next:
\* ingestion of small batches, corrections and retrievals in any order.
Next ==
    \/ BeginIngestBatch("t1", SmallBatches)
    \/ BeginSoftRemove("t1")
    \/ BeginCorrection("t1")
    \/ BeginRetrieve("t1", Retrievals)
    \/ SoftRemove("t1")
    \/ IngestStep("t1")
    \/ CorrectionStep("t1")
    \/ RetrieveStep("t1")
    \/ Return("t1")

Spec == Init /\ [][Next]_vars

\* ingest_batch alone: up to MaxIngestCalls calls, each on a batch of up to
\* MaxBatchLen inputs
MaxIngestCalls == 2
MaxBatchLen == 2

Batches == UNION { [ 1..n -> IngestCatalogue ] : n \in 0..MaxBatchLen }

IngestNext ==
    \/ calls < MaxIngestCalls /\ BeginIngestBatch("t1", Batches)
    \/ IngestStep("t1")
    \/ Return("t1")

IngestSpec == Init /\ [][IngestNext]_vars

\* two threads that call ingest_batch and the removal operations at will,
\* up to MaxConcCalls calls in all, their steps interleaved
MaxConcCalls == 3

\* their batches: two records that carry the same quality flag, and the two
\* kinds of malformed input
ConcBatches ==
    { << RawLatentTB >>, << RawPositivePPD >>, << RawMissingId >>,
      << RawNotAMapping >> }

ConcNext ==
    \E t \in Threads :
        \/ calls < MaxConcCalls /\ BeginIngestBatch(t, ConcBatches)
        \/ calls < MaxConcCalls /\ BeginCorrection(t)
        \/ IngestStep(t)
        \/ CorrectionStep(t)
        \/ Return(t)

ConcSpec == Init /\ [][ConcNext]_vars

\* a caller that walks the records the store hands out and may assign to
\* one, while batches are ingested and records removed; up to
\* MaxHandoutCalls calls in all
MaxHandoutCalls == 3

HandoutBatches ==
    { << RawLatentTB >>, << RawPulmonaryTB >>, << RawMissingId >>,
      << RawNotAMapping >> }

HandoutNext ==
    \/ calls < MaxHandoutCalls /\ BeginHandout("t1")
    \/ HandoutStep("t1")
    \/ Return("t1")
    \/ calls < MaxHandoutCalls /\ BeginIngestBatch("t2", HandoutBatches)
    \/ calls < MaxHandoutCalls /\ BeginSoftRemove("t2")
    \/ IngestStep("t2")
    \/ SoftRemove("t2")
    \/ Return("t2")

HandoutSpec == Init /\ [][HandoutNext]_vars

\* retrieve after ingestion, one caller: up to MaxRetrieveCalls calls in
\* all, the batches such that records share codes and names
MaxRetrieveCalls == 3

GroupBatches ==
    { << RawGout, RawAsthmaVisit1, RawAsthmaVisit2, RawGoutUpper >>,
      << RawLatentTB, RawTwoCodes, RawAsthmaVisit1, RawMissingId >>,
      << RawPositivePPD, RawConsolidated, RawNotAMapping >> }

MaxResultsValues == { -1, 0, 1, 2, DefaultMaxResults }

\* a code_system comes with a code only
GroupRetrievals ==
    { RetrieveArgs(query, filter[1], filter[2], status, max_results) :
        query \in { <<>>, <<"Asthma">> },
        filter \in { << "", "" >>, << "J45.909", "" >>, << "J45.909", "ICD10" >>,
                     << "J45.909", "snomed" >> },
        status \in { <<>>, <<"Active">> },
        max_results \in MaxResultsValues }

RetrieveNext ==
    \/ calls < MaxRetrieveCalls /\ BeginIngestBatch("t1", GroupBatches)
    \/ calls < MaxRetrieveCalls /\ BeginRetrieve("t1", GroupRetrievals)
    \/ IngestStep("t1")
    \/ RetrieveStep("t1")
    \/ Return("t1")

RetrieveSpec == Init /\ [][RetrieveNext]_vars

\* one batch of up to MaxMembers visits for one condition, their onset
\* starts and ends absent or among OnsetTimes, then retrievals: up to
\* MaxOverlapCalls calls in all, the first MaxOverlapBatches of them
\* ingestions
MaxMembers == 3
MaxOverlapBatches == 1
MaxOverlapCalls == 2

\* midnight, two hours later, and the hour between them as a clock two hours
\* ahead of UTC writes it
OnsetTimes == Iso(0, 0) \cup Iso(2, 0) \cup Iso(1, 2)

OnsetChoices == { {} } \cup { { x } : x \in OnsetTimes }

MemberIds == << "a1", "a2", "a3" >>

RawVisit(id, start, end) ==
    RawCondition(id, Status(<<"Active">>), <<"Asthma">>,
                 << Coding(ICD10_SYSTEM, "J45.909", <<>>) >>,
                 OnsetPeriod(start, end))

OnsetBatches ==
    UNION { { [ i \in 1..n |-> RawVisit(MemberIds[i], c[i][1], c[i][2]) ] :
                c \in [ 1..n -> OnsetChoices \X OnsetChoices ] } :
            n \in 0..MaxMembers }
    \cup { << RawMissingId >>, << RawNotAMapping >> }

OverlapNext ==
    \/ calls < MaxOverlapBatches /\ BeginIngestBatch("t1", OnsetBatches)
    \/ calls < MaxOverlapCalls
         /\ BeginRetrieve("t1", { RetrieveArgs(<<>>, "", "", <<>>, DefaultMaxResults) })
    \/ IngestStep("t1")
    \/ RetrieveStep("t1")
    \/ Return("t1")

OverlapSpec == Init /\ [][OverlapNext]_vars

\* ingest_batch alone, on batches of one input each with another clinical
\* status: up to MaxStatusCalls calls
MaxStatusCalls == 2

StatusBatches ==
    { << raw >> : raw \in { RawRemission, RawBlankStatus, RawQualifierActive,
                            RawPulmonaryTB, RawDuplicateId, RawLatentTB,
                            RawMissingId, RawNotAMapping } }

StatusNext ==
    \/ calls < MaxStatusCalls /\ BeginIngestBatch("t1", StatusBatches)
    \/ IngestStep("t1")
    \/ Return("t1")

StatusSpec == Init /\ [][StatusNext]_vars

\* the store alone, under two threads that call its methods at will, up to
\* MaxStoreCalls calls in all
MaxStoreCalls == 3

StoreNext ==
    \E t \in Threads :
        \/ calls < MaxStoreCalls /\ StoreCall(t)
        \/ StoreStep(t)

StoreSpec == Init /\ [][StoreNext]_vars


(***************************************************************************)
(* Properties.                                                             *)
(***************************************************************************)
\* thread t's call of one of ops has done all it does and is about to return
AtReturn(t, ops) == pc[t] = "return" /\ frame[t].op \in ops

\* a record with its soft-delete fields as at insertion
Unremoved(r) ==
    [ r EXCEPT !.is_removed = FALSE, !.removal_reason = {},
               !.removal_timestamp = {} ]

\* the raw input that thread t's ingest loop is at
CurrentRaw(t) == frame[t].raw_conditions[frame[t].i]

\* thread t's step runs one round of the ingest loop that calls store.add
AddRound(t) ==
    /\ pc[t] = "ingest_loop"
    /\ frame[t].i <= Len(frame[t].raw_conditions)
    /\ Validates(CurrentRaw(t))
    /\ frame'[t].i = frame[t].i + 1

(* C1: soft-delete is one-way.  No step of any operation takes a record    *)
(* out of the store or moves it, changes a removed record in any field,    *)
(* or changes an active record other than by marking it removed; so        *)
(* is_removed never goes back to false, the reason and timestamp of a      *)
(* removed record are never rewritten and total_count never decreases.     *)
C1_SoftDeleteOneWay ==
    [][ /\ total_count(records') >= total_count(records)
        /\ \A i \in 1..Len(records) :
             /\ records'[i].resource_id = records[i].resource_id
             /\ records[i].is_removed => records'[i] = records[i]
             /\ \/ records'[i] = records[i]
                \/ /\ records'[i].is_removed
                   /\ Unremoved(records'[i]) = records[i] ]_vars

\* remove_by_id has been answered "already removed" for a record of the store
C1_Witness ==
    /\ AtReturn("t1", {"remove_by_id"})
    /\ frame["t1"].result.message = "is already removed"
    /\ \E i \in 1..Len(records) :
         /\ records[i].resource_id = frame["t1"].resource_id
         /\ records[i].is_removed

(* C2: add inserts and returns true iff the id is not yet a key.  For a    *)
(* new id the record is appended as built and active_count and             *)
(* total_count go up by one; for an id already present, active or          *)
(* removed, add returns false and the store is unchanged.  (ingest_batch   *)
(* counts a true return in added, a false one in skipped_duplicate.)       *)
C2_AddFirstWriteWins ==
    [][ \A t \in Threads : AddRound(t) =>
          LET record == build_condition_record(CurrentRaw(t),
                                               frame[t].metrics.batch_number)
              present == \E i \in 1..Len(records) :
                            records[i].resource_id = record.resource_id
              inserted == frame'[t].metrics.added = frame[t].metrics.added + 1
          IN  /\ inserted <=> ~present
              /\ ~inserted <=>
                     frame'[t].metrics.skipped_duplicate
                         = frame[t].metrics.skipped_duplicate + 1
              /\ present => records' = records
              /\ ~present =>
                     /\ records' = Append(records, record)
                     /\ active_count(records') = active_count(records) + 1
                     /\ total_count(records') = total_count(records) + 1 ]_vars

\* an input was skipped as a duplicate of a stored record that is removed
\* and has other content
C2_Witness ==
    /\ AtReturn("t1", {"ingest_batch"})
    /\ frame["t1"].metrics.skipped_duplicate = 1
    /\ frame["t1"].raw_conditions = << RawDuplicateId >>
    /\ \E i \in 1..Len(records) :
         /\ records[i].resource_id = "c1"
         /\ records[i].is_removed
         /\ records[i].display_name = <<"Hx", "of", "Latent", "TB">>

\* what soft_remove(resource_id, reason) returning ret may do to the store
SoftRemoveContract(recs, recs2, resource_id, reason, ret) ==
    /\ ret <=> \E i \in 1..Len(recs) :
                  recs[i].resource_id = resource_id /\ ~recs[i].is_removed
    /\ ~ret => recs2 = recs
    /\ ret =>
         /\ Len(recs2) = Len(recs)
         /\ \A i \in 1..Len(recs) :
              IF recs[i].resource_id = resource_id
              THEN /\ recs2[i].is_removed
                   /\ recs2[i].removal_reason = {reason}
                   /\ recs2[i].removal_timestamp # {}
                   /\ Unremoved(recs2[i]) = recs[i]
              ELSE recs2[i] = recs[i]
    /\ removed_count(recs2) = removed_count(recs) + (IF ret THEN 1 ELSE 0)

(* C3: soft_remove returns true and marks the record removed, with the     *)
(* given reason and a timestamp, iff the id is present and not yet         *)
(* removed; for an unknown or an already-removed id it returns false and   *)
(* leaves the store as it is (removed_count not incremented again, the     *)
(* first reason and timestamp kept).  Checked on every call: the direct    *)
(* ones and those _apply_removals makes.                                   *)
C3_SoftRemoveOnce ==
    [][ \A t \in Threads :
          /\ (pc[t] = "store_soft_remove" /\ pc'[t] = "return") =>
                 SoftRemoveContract(records, records', frame[t].resource_id,
                                    frame[t].reason, frame'[t].ret)
          /\ (pc[t] = "soft_remove" /\ frame'[t].i = frame[t].i + 1) =>
                 SoftRemoveContract(records, records',
                                    frame[t].matched[frame[t].i], frame[t].reason,
                                    Len(frame'[t].removed) > Len(frame[t].removed))
      ]_vars

\* soft_remove has returned false for a record removed earlier for another
\* reason, which the record still carries
C3_Witness ==
    /\ AtReturn("t1", {"soft_remove"})
    /\ ~frame["t1"].ret
    /\ \E i \in 1..Len(records) :
         /\ records[i].resource_id = frame["t1"].resource_id
         /\ records[i].is_removed
         /\ records[i].removal_reason # { frame["t1"].reason }

\* the ledger is as thread t's call found it
LedgerAsFound(t) ==
    /\ ingestion_batches = frame[t].pre.ingestion_batches
    /\ quality_flags_total = frame[t].pre.quality_flags_total
    /\ corrections = frame[t].pre.corrections
    /\ retrieval_latency_samples = frame[t].pre.retrieval_latency_samples

\* the target string a removal operation was called with
CalledWith(f) ==
    CASE f.op = "remove_by_text" -> f.target
      [] f.op = "remove_by_code" -> << f.code >>
      [] f.op = "remove_by_id" -> << f.resource_id >>
      [] f.op = "remove_by_predicate" -> << f.predicate_name >>

(* C5: a removal operation that returns success has appended exactly one   *)
(* CorrectionEntry to the ledger, after the entries it found; the entry    *)
(* carries the operation's name, the target it was called with, its        *)
(* reason, and records_affected = the number of records the operation      *)
(* moved to removed (which is also the records_removed it reports), be     *)
(* that one record or several; the rest of the ledger is untouched.        *)
C5_OneEntryPerOperation ==
    \A t \in Threads :
        (AtReturn(t, RemovalOps) /\ frame[t].result.success) =>
            LET f == frame[t]
                n == Len(f.pre.corrections)
                moved == removed_count(records) - removed_count(f.pre.records)
            IN  /\ Len(corrections) = n + 1
                /\ SubSeq(corrections, 1, n) = f.pre.corrections
                /\ corrections[n + 1].action = f.op
                /\ corrections[n + 1].target = CalledWith(f)
                /\ corrections[n + 1].reason = f.reason
                /\ corrections[n + 1].records_affected = moved
                /\ f.result.records_removed = moved
                /\ ingestion_batches = f.pre.ingestion_batches
                /\ quality_flags_total = f.pre.quality_flags_total
                /\ retrieval_latency_samples = f.pre.retrieval_latency_samples

\* one successful operation has removed two records and left one entry
C5_Witness ==
    /\ AtReturn("t1", RemovalOps)
    /\ frame["t1"].result.success
    /\ frame["t1"].result.records_removed = 2
    /\ Len(corrections) = 1

\* thread t's removal operation was called with an unknown predicate name
UnknownPredicateCase(f) ==
    f.op = "remove_by_predicate"
    /\ f.predicate_name \notin { "tuberculosis", "admin_codes" }

\* ... with an id the store did not hold
UnknownIdCase(f) ==
    f.op = "remove_by_id"
    /\ \A i \in 1..Len(f.pre.records) :
           f.pre.records[i].resource_id # f.resource_id

\* ... with the id of a record that was already removed
AlreadyRemovedCase(f) ==
    f.op = "remove_by_id"
    /\ \E i \in 1..Len(f.pre.records) :
           /\ f.pre.records[i].resource_id = f.resource_id
           /\ f.pre.records[i].is_removed

\* ... with a target that no active record matched
NoMatchCase(f) ==
    \A i \in 1..Len(f.pre.records) :
        LET r == f.pre.records[i] IN
        \/ r.is_removed
        \/ f.op = "remove_by_text" /\ ~Contains(r.searchable_text, Lower(f.target))
        \/ f.op = "remove_by_code" /\ f.code \notin r.all_codes
        \/ f.op = "remove_by_id" /\ r.resource_id # f.resource_id
        \/ /\ f.op = "remove_by_predicate"
           /\ f.predicate_name \in PredicateNames
           /\ ~matches_predicate(r, PREDICATES[f.predicate_name])

(* C6: a removal operation called with an unknown predicate name, an       *)
(* unknown id, an already-removed id or a target that matches no active    *)
(* record raises nothing and returns success=false, records_removed=0      *)
(* and active_remaining = the store's active count, with the store and     *)
(* every field of the ledger as the call found them; remove_by_id          *)
(* answers an unknown id and an already-removed id with different          *)
(* messages.                                                               *)
C6_FailureLeavesNoTrace ==
    \A t \in Threads :
        LET f == frame[t] IN
        ( /\ AtReturn(t, RemovalOps)
          /\ \/ UnknownPredicateCase(f)
             \/ UnknownIdCase(f)
             \/ AlreadyRemovedCase(f)
             \/ NoMatchCase(f) ) =>
            /\ ~f.raised
            /\ ~f.result.success
            /\ f.result.records_removed = 0
            /\ f.result.active_remaining = active_count(records)
            /\ records = f.pre.records
            /\ LedgerAsFound(t)
            /\ UnknownIdCase(f) =>
                   f.result.message = "No active conditions found matching"
            /\ AlreadyRemovedCase(f) => f.result.message = "is already removed"
            /\ UnknownPredicateCase(f) => f.result.message = "Unknown predicate"

\* remove_by_id has failed on an already-removed id, the ledger still
\* holding the one entry of the removal that went before
C6_Witness ==
    /\ AtReturn("t1", {"remove_by_id"})
    /\ AlreadyRemovedCase(frame["t1"])
    /\ ~frame["t1"].result.success
    /\ Len(corrections) = 1
    /\ Len(frame["t1"].pre.corrections) = 1

\* the records that a returned list of references shows
Deref(ids) == [ k \in 1..Len(ids) |-> records[IndexOf(records, ids[k])] ]

\* thread t's store call, leaving the lock, has returned and done what the
\* method does when it runs alone on the store that t found on taking the lock
RunsAlone(t) ==
    LET f == frame[t]
        found == f.pre.records
    IN
    CASE f.op = "add" ->
           /\ f.ret = add(found, ArgRecord(f)).ret
           /\ records = add(found, ArgRecord(f)).records
      [] f.op = "soft_remove" ->
           \E now \in 0..MaxClock :
               /\ f.ret = soft_remove(found, f.resource_id, f.reason, now).ret
               /\ records = soft_remove(found, f.resource_id, f.reason, now).records
      [] f.op = "get_all_active" ->
           Deref(f.matched) = get_all_active(found) /\ records = found
      [] f.op = "get_all_removed" ->
           Deref(f.matched) = get_all_removed(found) /\ records = found
      [] f.op = "active_count" ->
           f.read = active_count(found) /\ records = found
      [] f.op = "removed_count" ->
           f.read = removed_count(found) /\ records = found
      [] f.op = "total_count" ->
           f.read = total_count(found) /\ records = found

\* threads t and u both have a true return of the same method in hand
BothTrue(t, u, op) ==
    /\ t # u
    /\ pc[t] \in { "release", "return" } /\ frame[t].op = op /\ frame[t].ret
    /\ pc[u] \in { "release", "return" } /\ frame[u].op = op /\ frame[u].ret

\* no record is half-way through a removal
Whole(recs) ==
    \A i \in 1..Len(recs) :
        /\ recs[i].is_removed <=> recs[i].removal_reason # {}
        /\ recs[i].is_removed <=> recs[i].removal_timestamp # {}

(* C4: the lock serialises the store's methods.  Under every interleaving  *)
(* of two threads calling add, soft_remove, get_all_active,                *)
(* get_all_removed and the three counts: a thread is in a method's body    *)
(* only while it holds the lock; each call returns, and leaves the store,  *)
(* as the method run alone on the store state the thread found when it     *)
(* took the lock, so every returned list and count is the value in that    *)
(* one state, in which no removal is half done; an add returns true only   *)
(* for an id that state did not hold, a soft_remove only for a record      *)
(* active in it, and no two calls in flight both hold a true return of     *)
(* add, or of soft_remove, for the same id.                                *)
C4_LockSerializesStore ==
    /\ [][ \A t \in Threads :
             (pc[t] = "release" /\ pc'[t] = "return") => RunsAlone(t) ]_vars
    /\ [] \A t \in Threads :
             pc[t] \notin { "idle", "acquire", "return" } => lock = t
    /\ [] (lock = "none" => Whole(records))
    /\ [] \A t, u \in Threads :
             /\ BothTrue(t, u, "add") =>
                    ArgRecord(frame[t]).resource_id # ArgRecord(frame[u]).resource_id
             /\ BothTrue(t, u, "soft_remove") =>
                    frame[t].resource_id # frame[u].resource_id

\* one thread has found an id absent and is about to store its record,
\* while the other waits at the lock with an add of the same id
C4_Witness ==
    /\ pc["t1"] = "add_store" /\ lock = "t1"
    /\ pc["t2"] = "acquire" /\ frame["t2"].op = "add"
    /\ ArgRecord(frame["t1"]).resource_id = ArgRecord(frame["t2"]).resource_id
    /\ ArgRecord(frame["t1"]) # ArgRecord(frame["t2"])

\* every thread is between two calls
Quiescent == \A t \in Threads : pc[t] = "idle"

\* the names of the flags that the ledger or one of its batches counts
FlagNames ==
    { quality_flags_total[i].k : i \in 1..Len(quality_flags_total) }
    \cup UNION { { ingestion_batches[b].flags[i].k :
                     i \in 1..Len(ingestion_batches[b].flags) } :
                 b \in 1..Len(ingestion_batches) }

\* flags[flag] summed over the batches in the ledger
FlagSum(flag) ==
    SumSeq([ b \in 1..Len(ingestion_batches) |->
               DictGet(ingestion_batches[b].flags, flag, 0) ])

(* C7: the ledger loses no update under concurrent ingest_batch and        *)
(* removal calls: whenever all calls have returned, the ledger holds one   *)
(* BatchMetrics for each ingest_batch call that returned, one              *)
(* CorrectionEntry for each removal operation that returned success, and   *)
(* for every flag name quality_flags_total[flag] is the sum of             *)
(* flags[flag] over the batches in the ledger.                             *)
C7_LedgerLosesNoUpdate ==
    Quiescent =>
        /\ Len(ingestion_batches) = returned.ingest_batch
        /\ Len(corrections) = returned.removals
        /\ \A flag \in FlagNames :
               DictGet(quality_flags_total, flag, 0) = FlagSum(flag)

\* the inputs of a batch that cannot be converted to a record
Malformed(raw_conditions) ==
    { i \in 1..Len(raw_conditions) : ~Validates(raw_conditions[i]) }

\* the resource id that input i of a batch carries
IdOf(raw_conditions, i) == CHOOSE id \in raw_conditions[i].id : TRUE

\* the well-formed inputs of a batch whose id the store found by f held, or
\* an earlier well-formed input of the batch carries
Duplicates(f) ==
    { i \in 1..Len(f.raw_conditions) \ Malformed(f.raw_conditions) :
        \/ Contains_id(f.pre.records, IdOf(f.raw_conditions, i))
        \/ \E j \in 1..(i - 1) :
               /\ j \notin Malformed(f.raw_conditions)
               /\ IdOf(f.raw_conditions, j) = IdOf(f.raw_conditions, i) }

(* C8: when a call of ingest_batch over N inputs is over, its metrics      *)
(* have received = N = added + skipped_duplicate + errored, errored = the  *)
(* number of inputs that failed to build, skipped_duplicate = the number   *)
(* of built records whose id was in the store already or came earlier in   *)
(* the batch, added = the increase of total_count; and these metrics, as   *)
(* they stand after the last input, have been appended to the ledger, once.*)
C8_BatchMetricsAddUp ==
    \A t \in Threads :
        AtReturn(t, {"ingest_batch"}) =>
            LET f == frame[t]
                N == Len(f.raw_conditions)
                m == f.metrics
            IN  /\ m.received = N
                /\ N = m.added + m.skipped_duplicate + m.errored
                /\ m.errored = Cardinality(Malformed(f.raw_conditions))
                /\ m.skipped_duplicate = Cardinality(Duplicates(f))
                /\ m.added = total_count(records) - total_count(f.pre.records)
                /\ ingestion_batches = Append(f.pre.ingestion_batches, m)

(* C9: a malformed input never aborts a batch: whatever the inputs that    *)
(* cannot be converted (no id, wrong field types, not a mapping) and       *)
(* wherever they stand, ingest_batch returns to its caller without         *)
(* raising, has counted each of them once in errored, and every            *)
(* well-formed input, also one that comes after a malformed one, is in     *)
(* the store.                                                              *)
C9_MalformedNeverAborts ==
    \A t \in Threads :
        AtReturn(t, {"ingest_batch"}) =>
            LET f == frame[t] IN
            /\ ~f.raised
            /\ f.metrics.errored = Cardinality(Malformed(f.raw_conditions))
            /\ \A i \in 1..Len(f.raw_conditions) \ Malformed(f.raw_conditions) :
                   Contains_id(records, IdOf(f.raw_conditions, i))

\* the records that the specification names for the tuberculosis predicate
NamedForTuberculosis(r) ==
    \/ Contains(r.searchable_text, << "latent", "tb" >>)
    \/ r.icd10_codes \cap { "Z22.7", "Z86.15" } # {}
    \/ r.snomed_codes \cap { "11999007", "428934008" } # {}

\* thread t's remove_by_predicate("tuberculosis", reason) has removed the
\* active records that satisfy Named, each with the call's reason, and has
\* left every other record as it was
RemovedExactly(t, Named(_)) ==
    LET f == frame[t]
        found == f.pre.records
    IN  /\ Len(records) = Len(found)
        /\ \A i \in 1..Len(found) :
               IF ~found[i].is_removed /\ Named(found[i])
               THEN /\ records[i].is_removed
                    /\ records[i].removal_reason = { f.reason }
                    /\ Unremoved(records[i]) = found[i]
               ELSE records[i] = found[i]

\* thread t's call remove_by_predicate("tuberculosis", ...) is over
TuberculosisRemovalDone(t) ==
    /\ AtReturn(t, {"remove_by_predicate"})
    /\ frame[t].predicate_name = "tuberculosis"

(* C10 as the specification has it: remove_by_predicate("tuberculosis",    *)
(* reason) soft-removes exactly the active records whose searchable text   *)
(* contains "latent tb", or whose ICD-10 codes include Z22.7 or Z86.15,    *)
(* or whose SNOMED codes include 11999007 or 428934008, and changes no     *)
(* other record.                                                           *)
C10_AsSpecified ==
    \A t \in Threads :
        TuberculosisRemovalDone(t) => RemovedExactly(t, NamedForTuberculosis)

\* ... or whose searchable text contains "tuberculosis"
NamedOrTuberculosis(r) ==
    \/ NamedForTuberculosis(r)
    \/ Contains(r.searchable_text, << "tuberculosis" >>)

(* C10: remove_by_predicate("tuberculosis", reason) soft-removes exactly   *)
(* the active records whose searchable text contains "tuberculosis" or     *)
(* "latent tb", or whose ICD-10 codes include Z22.7 or Z86.15, or whose    *)
(* SNOMED codes include 11999007 or 428934008: each of them is removed     *)
(* with the given reason and no other record changes.                      *)
C10_TuberculosisPredicate ==
    \A t \in Threads :
        TuberculosisRemovalDone(t) => RemovedExactly(t, NamedOrTuberculosis)

\* the predicate has removed a record that only a SNOMED code brings under it
C10_Witness ==
    /\ TuberculosisRemovalDone("t1")
    /\ frame["t1"].result.success
    /\ \E i \in 1..Len(records) :
         /\ records[i].is_removed
         /\ ~frame["t1"].pre.records[i].is_removed
         /\ records[i].snomed_codes = { "11999007" }
         /\ ~Contains(records[i].searchable_text, << "tuberculosis" >>)
         /\ ~Contains(records[i].searchable_text, << "latent", "tb" >>)

\* thread t's step is an assignment by the caller to a record it was handed
CallerAssigns(t) ==
    /\ frame[t].op \in HandoutOps
    /\ frame'[t].read = frame[t].read + 1

\* thread t's step is iterate() yielding its next record
Yields(t) ==
    /\ frame[t].op = "iterate"
    /\ pc[t] = "yield"
    /\ frame'[t].i = frame[t].i + 1

(* C11: records handed out by the store cannot be used to change the       *)
(* store.  An assignment by the caller to a record it got from iterate(),  *)
(* get_all_active() or get_all_removed(), such as setting is_removed,      *)
(* leaves the stored records and the active and removed counts as they     *)
(* were; and whatever is added or removed after iterate() took its copy,   *)
(* it yields the records that the store held at that moment, one after     *)
(* the other in their order.                                               *)
C11_HandoutsCannotChangeStore ==
    [][ \A t \in Threads :
          /\ CallerAssigns(t) =>
                 /\ records' = records
                 /\ active_count(records') = active_count(records)
                 /\ removed_count(records') = removed_count(records)
          /\ Yields(t) =>
                 /\ frame[t].i <= Len(frame[t].pre.records)
                 /\ frame'[t].resource_id =
                        frame[t].pre.records[frame[t].i].resource_id ]_vars

\* C12: a call of retrieve, however it ends (its text, the message that no
\* condition matched, or an exception out of the filters or of the slicing
\* of the groups), has appended exactly one latency sample and has changed
\* nothing else of the store and of the ledger.
C12_RetrieveAppendsOneSample ==
    \A t \in Threads :
        AtReturn(t, { "retrieve" }) =>
            /\ Len(retrieval_latency_samples) =
                   Len(frame[t].pre.retrieval_latency_samples) + 1
            /\ SubSeq(retrieval_latency_samples, 1,
                      Len(frame[t].pre.retrieval_latency_samples)) =
                   frame[t].pre.retrieval_latency_samples
            /\ records = frame[t].pre.records
            /\ ingestion_batches = frame[t].pre.ingestion_batches
            /\ quality_flags_total = frame[t].pre.quality_flags_total
            /\ corrections = frame[t].pre.corrections

\* a retrieve that raised after grouping has returned, its sample recorded
C12_Witness ==
    /\ AtReturn("t1", { "retrieve" })
    /\ frame["t1"].raised
    /\ frame["t1"].grouped # <<>>
    /\ Len(retrieval_latency_samples) =
           Len(frame["t1"].pre.retrieval_latency_samples) + 1

\* the three status values
StatusValues == { <<"active">>, <<"resolved">>, <<"unknown">> }

\* the keys of the synonym table
StatusSynonyms ==
    { <<"active">>, <<"active", "(qualifier", "value)">>, <<"resolved">> }

\* the clinical-status text of a raw input, trimmed and lower-cased; the
\* empty text when the input has no clinical status
StatusText(raw) ==
    IF raw.clinicalStatus = {} THEN <<>>
    ELSE Lower(Strip((CHOOSE s \in raw.clinicalStatus : TRUE).text))

\* thread t's step stores the record built from the input its loop is at
StoresBuilt(t) == AddRound(t) /\ Len(records') = Len(records) + 1

Grouped(t) == frame[t].op = "retrieve" /\ frame[t].canon # <<>>

\* the candidates of thread t's retrieve
Candidates(t) ==
    [ i \in 1..Len(frame[t].matched) |->
        records[IndexOf(records, frame[t].matched[i])] ]

\* the codes that may stand for a record: its ICD-10 codes if it has any,
\* else its SNOMED codes, else its ICD-9 codes, else its lower-cased name
CodesFor(record) ==
    IF record.icd10_codes # {} THEN { << c >> : c \in record.icd10_codes }
    ELSE IF record.snomed_codes # {} THEN { << c >> : c \in record.snomed_codes }
    ELSE IF record.icd9_codes # {} THEN { << c >> : c \in record.icd9_codes }
    ELSE { Lower(record.display_name) }

RECURSIVE EncounterSum(_)
EncounterSum(groups) ==
    IF groups = <<>> THEN 0
    ELSE Head(groups).encounter_count + EncounterSum(Tail(groups))

\* C14: the groups partition the candidates.  Each candidate has as
\* canonical code one of its ICD-10 codes if it has any, else one of its
\* SNOMED codes, else one of its ICD-9 codes, else its lower-cased name, and
\* exactly one group has that code; no two groups have the same code; a
\* group's encounter_count is the number of candidates with its code, its
\* statuses are theirs; and the encounter counts sum to the number of
\* candidates.
C14_GroupsPartitionCandidates ==
    \A t \in Threads :
        Grouped(t) =>
            LET f == frame[t]
                candidates == Candidates(t)
                groups == f.grouped
                Members(k) == { i \in 1..Len(candidates) :
                                  f.canon[i].code = groups[k].canonical_code }
            IN  /\ \A i \in 1..Len(candidates) :
                     /\ f.canon[i].code \in CodesFor(candidates[i])
                     /\ Cardinality({ k \in 1..Len(groups) :
                                        groups[k].canonical_code = f.canon[i].code }) = 1
                /\ \A k, l \in 1..Len(groups) :
                     groups[k].canonical_code = groups[l].canonical_code => k = l
                /\ \A k \in 1..Len(groups) :
                     /\ groups[k].encounter_count = Cardinality(Members(k))
                     /\ groups[k].encounter_count >= 1
                     /\ groups[k].statuses =
                            { candidates[i].normalized_status : i \in Members(k) }
                /\ EncounterSum(groups) = Len(candidates)

\* four candidates in two groups of two: one of two records with one ICD-10
\* code, two names and two statuses, one of two uncoded records whose names
\* differ in case
C14_Witness ==
    /\ Grouped("t1")
    /\ Len(frame["t1"].matched) = 4
    /\ \E k, l \in 1..Len(frame["t1"].grouped) :
         /\ frame["t1"].grouped[k].canonical_code = << "J45.909" >>
         /\ frame["t1"].grouped[k].encounter_count = 2
         /\ frame["t1"].grouped[k].statuses = { <<"active">>, <<"resolved">> }
         /\ frame["t1"].grouped[l].canonical_code = << "gout" >>
         /\ frame["t1"].grouped[l].code_system_label = "text"
         /\ frame["t1"].grouped[l].encounter_count = 2
    /\ \E i, j \in 1..Len(frame["t1"].matched) :
         /\ frame["t1"].canon[i] = frame["t1"].canon[j]
         /\ Candidates("t1")[i].display_name # Candidates("t1")[j].display_name

\* the first candidate of thread t's retrieve that has the code of group k
FirstSeen(t, k) ==
    CHOOSE i \in 1..Len(frame[t].matched) :
        /\ frame[t].canon[i].code = frame[t].grouped[k].canonical_code
        /\ \A j \in 1..(i - 1) :
             frame[t].canon[j].code # frame[t].grouped[k].canonical_code

\* thread t's retrieve returns the text it built from its candidates
RetrievedText(t) ==
    /\ AtReturn(t, { "retrieve" })
    /\ ~frame[t].raised
    /\ frame[t].output.kind = "Found"

\* C16: a retrieve with max_results = m whose candidates form G groups
\* renders min(m, G) groups, namely the first ones when the groups are put
\* in descending order of encounter count, groups of equal count in the
\* order in which their codes were first seen; its header notes a
\* truncation iff G > m.
C16_RendersTopGroups ==
    \A t \in Threads :
        RetrievedText(t) =>
            LET f == frame[t]
                G == Len(f.grouped)
            IN  /\ Len(f.sections) = Min(f.max_results, G)
                /\ \A k \in 1..Len(f.sections) :
                     f.sections[k] = format_group_for_llm(f.grouped[k])
                /\ \A k, l \in 1..G :
                     k < l =>
                        \/ f.grouped[k].encounter_count > f.grouped[l].encounter_count
                        \/ /\ f.grouped[k].encounter_count = f.grouped[l].encounter_count
                           /\ FirstSeen(t, k) < FirstSeen(t, l)
                /\ f.showing_top # {} <=> G > f.max_results

\* the candidates of thread t's retrieve that are in group k and have both
\* an onset start and an onset end
Paired(t, k) ==
    { i \in 1..Len(frame[t].matched) :
        /\ frame[t].canon[i].code = frame[t].grouped[k].canonical_code
        /\ Candidates(t)[i].onset_start # {}
        /\ Candidates(t)[i].onset_end # {} }

\* the instants at which candidate i's onset period starts and ends
StartOf(t, i) == (CHOOSE dt \in Candidates(t)[i].onset_start : TRUE).hours
EndOf(t, i) == (CHOOSE dt \in Candidates(t)[i].onset_end : TRUE).hours

\* the place of candidate i among the paired candidates of group k, sorted
\* by start, those of equal start in the order of the candidates
PlaceByStart(t, k, i) ==
    Cardinality({ j \in Paired(t, k) :
                    \/ StartOf(t, j) < StartOf(t, i)
                    \/ StartOf(t, j) = StartOf(t, i) /\ j <= i })

\* C15: a group is flagged has_overlapping_dates iff at least two of its
\* members have both onset start and onset end and, these sorted by start,
\* one of them starts strictly before the end of the one just before it.
C15_OverlapFlag ==
    \A t \in Threads :
        Grouped(t) =>
            \A k \in 1..Len(frame[t].grouped) :
                frame[t].grouped[k].has_overlapping_dates <=>
                    /\ Cardinality(Paired(t, k)) >= 2
                    /\ \E i, j \in Paired(t, k) :
                         /\ PlaceByStart(t, k, j) = PlaceByStart(t, k, i) + 1
                         /\ StartOf(t, j) < EndOf(t, i)

\* the list of periods in the order perm
Permuted(periods, perm) == [ i \in 1..Len(periods) |-> periods[perm[i]] ]

\* C19: whatever list of onset periods a group has collected,
\* _detect_overlapping_onset_periods gives the same result for every
\* permutation of it.
C19_OverlapIgnoresOrder ==
    \A t \in Threads :
        Grouped(t) =>
            \A k \in 1..Len(frame[t].grouped) :
                LET periods == frame[t].grouped[k].onset_periods IN
                \A perm \in Permutations(1..Len(periods)) :
                    detect_overlapping_onset_periods(Permuted(periods, perm)) =
                        detect_overlapping_onset_periods(periods)

\* thread t is inside a removal operation
InRemoval(t) == frame[t].op \in RemovalOps /\ pc[t] \notin { "idle", "return" }

\* get_system_status: conditions_removed
ConditionsRemoved ==
    SumSeq([ i \in 1..Len(corrections) |-> corrections[i].records_affected ])

\* C17: whenever no removal operation is in progress, however the removal
\* operations of the two threads were interleaved, the records_affected of
\* the audit entries sum to the store's removed_count.
C17_AuditAgreesWithStore ==
    (\A t \in Threads : ~InRemoval(t)) =>
        ConditionsRemoved = removed_count(records)

\* two removal operations have raced for one record: both have returned and
\* left an entry, one of them for no record, and the one removed record is
\* counted once
C17_Witness ==
    /\ Quiescent
    /\ Len(corrections) = 2
    /\ \E i \in 1..2 : corrections[i].records_affected = 0
    /\ removed_count(records) = 1
    /\ ConditionsRemoved = 1

\* C18: under any interleaving of removal operations, a result with success
\* true has records_removed >= 1 and every audit entry has
\* records_affected >= 1.
C18_SuccessMeansRemoved ==
    /\ \A t \in Threads :
         AtReturn(t, RemovalOps) /\ frame[t].result.success =>
             frame[t].result.records_removed >= 1
    /\ \A i \in 1..Len(corrections) : corrections[i].records_affected >= 1

=============================================================================
